---- MODULE Spec2Model ----
(***************************************************************************)
(* A model of json.hpp (jdpalmer/json): the Reader over a std::istream,    *)
(* the recursive-descent parser parse(Reader &) unrolled into a machine    *)
(* with an explicit call stack, the top-level parse(std::istream &), and   *)
(* the serializer (the print methods and operator<<), driven as jsontest   *)
(* drives them: parse the file, then print the value or the error.         *)
(*                                                                         *)
(* Characters are their byte values 0..255; EOF is -1 as in <cstdio>.      *)
(***************************************************************************)
EXTENDS Integers, Sequences, FiniteSets, TLC

VARIABLES
  input,   \* the bytes held by the std::istream handed to parse
  reader,  \* Reader: line, capture_offset, buffer; and the stream's state
  pc,      \* position of the running parse(Reader &) activation
  stack,   \* suspended parse(Reader &) activations (object / array frames)
  c,       \* local `int c` of the running activation
  value,   \* local `std::string value` of the string case
  high,    \* local `char16_t high` of the \u case
  low,     \* local `char16_t low` of the \u case
  ret,     \* value returned by the parse(Reader &) call that just returned
  result,  \* outcome of parse(std::istream &): running, a Value or a ParseError
  out,     \* text written by operator<< for the parsed value
  origin,  \* how the bytes of input were chosen
  prior    \* input and outcome of the previous run on the same file, if any

vars == <<input, reader, pc, stack, c, value, high, low, ret, result, out, origin, prior>>

----------------------------------------------------------------------------
(* Character codes                                                          *)

EOF == -1
CH_BS == 8
CH_TAB == 9
CH_LF == 10
CH_FF == 12
CH_CR == 13
CH_SPACE == 32
CH_QUOTE == 34
CH_PLUS == 43
CH_COMMA == 44
CH_MINUS == 45
CH_DOT == 46
CH_SLASH == 47
CH_0 == 48
CH_1 == 49
CH_2 == 50
CH_3 == 51
CH_5 == 53
CH_7 == 55
CH_8 == 56
CH_9 == 57
CH_COLON == 58
CH_UA == 65
CH_UB == 66
CH_UC == 67
CH_UD == 68
CH_UE == 69
CH_UF == 70
CH_LBRACKET == 91
CH_BACKSLASH == 92
CH_RBRACKET == 93
CH_a == 97
CH_b == 98
CH_c == 99
CH_d == 100
CH_e == 101
CH_f == 102
CH_l == 108
CH_n == 110
CH_r == 114
CH_s == 115
CH_t == 116
CH_u == 117
CH_x == 120
CH_LBRACE == 123
CH_RBRACE == 125

isdigit(ch) == ch \in CH_0..CH_9

isxdigit(ch) == isdigit(ch) \/ ch \in CH_a..CH_f \/ ch \in CH_UA..CH_UF

\* value of one hexadecimal digit, as strtol(.., 16) reads it
HexVal(ch) ==
  IF isdigit(ch) THEN ch - CH_0
  ELSE IF ch \in CH_a..CH_f THEN ch - CH_a + 10
  ELSE ch - CH_UA + 10

----------------------------------------------------------------------------
(* The std::istream: get() and unget()                                      *)

\* input.get(): the next byte, or EOF with eofbit and failbit set
StreamGet(r) ==
  IF ~r.failbit /\ ~r.eofbit /\ r.pos < Len(input)
  THEN [r |-> [r EXCEPT !.pos = r.pos + 1], c |-> input[r.pos + 1]]
  ELSE [r |-> [r EXCEPT !.eofbit = (r.eofbit \/ ~r.failbit), !.failbit = TRUE],
        c |-> EOF]

\* input.unget(): clears eofbit, then steps back one byte unless the
\* stream has failed
StreamUnget(r) ==
  IF ~r.failbit /\ r.pos > 0
  THEN [r EXCEPT !.eofbit = FALSE, !.pos = r.pos - 1]
  ELSE [r EXCEPT !.eofbit = FALSE, !.failbit = TRUE]

----------------------------------------------------------------------------
(* Reader                                                                   *)

BufSize == 64

NoErr == ""

ReaderInit ==
  [pos |-> 0, eofbit |-> FALSE, failbit |-> FALSE,
   line |-> 0, capture_offset |-> -1,
   buffer |-> [i \in 0..(BufSize - 1) |-> 0]]

\* get() with the test `capture_offset > 64`
get_LateOverlong(r) ==
  LET s == StreamGet(r) IN
  IF s.c = EOF
  THEN [r |-> s.r, c |-> EOF, err |-> "Unexpected end of file"]
  ELSE IF s.r.capture_offset >= 0
       THEN IF s.r.capture_offset > BufSize
            THEN [r |-> s.r, c |-> s.c, err |-> "Overlong value"]
            ELSE [r |-> [s.r EXCEPT
                          !.buffer = IF s.r.capture_offset < BufSize
                                     THEN [s.r.buffer EXCEPT ![s.r.capture_offset] = s.c]
                                     ELSE s.r.buffer,
                          !.capture_offset = s.r.capture_offset + 1],
                  c |-> s.c, err |-> NoErr]
       ELSE [r |-> s.r, c |-> s.c, err |-> NoErr]

\* int Reader::get()
get(r) ==
  LET s == StreamGet(r) IN
  IF s.c = EOF
  THEN [r |-> s.r, c |-> EOF, err |-> "Unexpected end of file"]
  ELSE IF s.r.capture_offset >= 0
       THEN IF s.r.capture_offset >= BufSize
            THEN [r |-> s.r, c |-> s.c, err |-> "Overlong value"]
            ELSE [r |-> [s.r EXCEPT
                          !.buffer = [s.r.buffer EXCEPT ![s.r.capture_offset] = s.c],
                          !.capture_offset = s.r.capture_offset + 1],
                  c |-> s.c, err |-> NoErr]
       ELSE [r |-> s.r, c |-> s.c, err |-> NoErr]

\* unget() without the test `capture_offset >= 0`
unget_Unguarded(r) ==
  LET s == StreamUnget(r) IN
  [s EXCEPT !.capture_offset = s.capture_offset - 1]

\* void Reader::unget()
unget(r) ==
  LET s == StreamUnget(r) IN
  IF s.capture_offset >= 0
  THEN [s EXCEPT !.capture_offset = s.capture_offset - 1]
  ELSE s

\* void Reader::begin_capture()
begin_capture(r) == [r EXCEPT !.capture_offset = 0]

\* void Reader::end_capture(): the terminator is stored only when the index
\* lies inside the 64 bytes of the buffer
end_capture(r) ==
  [r EXCEPT
    !.buffer = IF r.capture_offset \in 0..(BufSize - 1)
               THEN [r.buffer EXCEPT ![r.capture_offset] = 0]
               ELSE r.buffer,
    !.capture_offset = -1]

\* the C string held by the buffer: the bytes before the first NUL
RECURSIVE CStrFrom(_, _)
CStrFrom(buf, i) ==
  IF i >= BufSize \/ buf[i] = 0 THEN <<>>
  ELSE <<buf[i]>> \o CStrFrom(buf, i + 1)

CStr(buf) == CStrFrom(buf, 0)

\* skip_ws with `line += 1` reached from case '\r' as well
RECURSIVE skip_ws_loop_CountsCR(_, _)
skip_ws_loop_CountsCR(r, ch) ==
  IF ch \in {CH_LF, CH_CR}
  THEN LET s == StreamGet([r EXCEPT !.line = r.line + 1]) IN skip_ws_loop_CountsCR(s.r, s.c)
  ELSE IF ch \in {CH_SPACE, CH_TAB}
  THEN LET s == StreamGet(r) IN skip_ws_loop_CountsCR(s.r, s.c)
  ELSE IF ch = EOF THEN r
  ELSE StreamUnget(r)

\* void Reader::skip_ws()
RECURSIVE skip_ws_loop(_, _)
skip_ws_loop(r, ch) ==
  IF ch = CH_LF
  THEN LET s == StreamGet([r EXCEPT !.line = r.line + 1]) IN skip_ws_loop(s.r, s.c)
  ELSE IF ch \in {CH_SPACE, CH_CR, CH_TAB}
  THEN LET s == StreamGet(r) IN skip_ws_loop(s.r, s.c)
  ELSE IF ch = EOF THEN r
  ELSE StreamUnget(r)

skip_ws(r) ==
  LET s == StreamGet(r) IN skip_ws_loop(s.r, s.c)

\* consume reading through Reader::get, so that the end of the input raises
\* "Unexpected end of file" where a character of str is expected
RECURSIVE consume_ThroughGet(_, _, _)
consume_ThroughGet(r, str, err) ==
  IF str = <<>> THEN [r |-> r, err |-> NoErr]
  ELSE LET s == StreamGet(r) IN
       IF s.c = EOF THEN [r |-> s.r, err |-> "Unexpected end of file"]
       ELSE IF Head(str) # s.c THEN [r |-> s.r, err |-> err]
       ELSE consume_ThroughGet(s.r, Tail(str), err)

\* void Reader::consume(str, err): reads with input.get(), never with get()
RECURSIVE consume(_, _, _)
consume(r, str, err) ==
  IF str = <<>> THEN [r |-> r, err |-> NoErr]
  ELSE LET s == StreamGet(r) IN
       IF Head(str) # s.c THEN [r |-> s.r, err |-> err]
       ELSE consume(s.r, Tail(str), err)

\* EncodeCodepoint with the mask 0x1F in place of 0x3F in the three-byte form
EncodeCodepoint_BadMask(codepoint) ==
  IF codepoint <= 127 THEN <<codepoint % 256>>
  ELSE IF codepoint <= 2047
  THEN << 192 + ((codepoint \div 64) % 32),
          128 + (codepoint % 64) >>
  ELSE IF codepoint <= 65535
  THEN << 224 + ((codepoint \div 4096) % 16),
          128 + ((codepoint \div 64) % 32),
          128 + (codepoint % 64) >>
  ELSE << 240 + ((codepoint \div 262144) % 8),
          128 + ((codepoint \div 4096) % 64),
          128 + ((codepoint \div 64) % 64),
          128 + (codepoint % 64) >>

\* the UTF-8 branches of utf16_to_utf8, for a codepoint up to 0x1FFFFF
EncodeCodepoint(codepoint) ==
  IF codepoint <= 127 THEN <<codepoint % 256>>
  ELSE IF codepoint <= 2047
  THEN << 192 + ((codepoint \div 64) % 32),
          128 + (codepoint % 64) >>
  ELSE IF codepoint <= 65535
  THEN << 224 + ((codepoint \div 4096) % 16),
          128 + ((codepoint \div 64) % 64),
          128 + (codepoint % 64) >>
  ELSE << 240 + ((codepoint \div 262144) % 8),
          128 + ((codepoint \div 4096) % 64),
          128 + ((codepoint \div 64) % 64),
          128 + (codepoint % 64) >>

\* utf16_to_utf8 without the test `high > 0xDBFF`
utf16_to_utf8_NoHighCheck(h, l) ==
  LET single == (h <= 55295) \/ (h >= 57344)
      codepoint == IF single THEN h
                   ELSE ((h - 55296) * 1024) + (l - 56320) + 65536
  IN
  IF single /\ l # 0
  THEN [s |-> <<>>, err |-> "Invalid UTF16 surrogate pair"]
  ELSE IF ~single /\ (l < 56320 \/ l > 57343)
  THEN [s |-> <<>>, err |-> "Invalid UTF16 low surrogate"]
  ELSE IF codepoint > 2097151
  THEN [s |-> <<>>, err |-> "Invalid unicode codepoint"]
  ELSE [s |-> EncodeCodepoint(codepoint), err |-> NoErr]

\* const std::string Reader::utf16_to_utf8(high, low) const
utf16_to_utf8(h, l) ==
  LET single == (h <= 55295) \/ (h >= 57344)
      codepoint == IF single THEN h
                   ELSE ((h - 55296) * 1024) + (l - 56320) + 65536
  IN
  IF single /\ l # 0
  THEN [s |-> <<>>, err |-> "Invalid UTF16 surrogate pair"]
  ELSE IF ~single /\ h > 56319
  THEN [s |-> <<>>, err |-> "Invalid UTF16 high surrogate"]
  ELSE IF ~single /\ (l < 56320 \/ l > 57343)
  THEN [s |-> <<>>, err |-> "Invalid UTF16 low surrogate"]
  ELSE IF codepoint > 2097151
  THEN [s |-> <<>>, err |-> "Invalid unicode codepoint"]
  ELSE [s |-> EncodeCodepoint(codepoint), err |-> NoErr]

\* strtol(buffer, 0, 16) on a buffer of hexadecimal digits
RECURSIVE strtol16(_, _)
strtol16(s, acc) ==
  IF s = <<>> \/ ~isxdigit(Head(s)) THEN acc
  ELSE strtol16(Tail(s), acc * 16 + HexVal(Head(s)))

\* char16_t Reader::consume_surrogate()
RECURSIVE consume_surrogate_loop(_, _)
consume_surrogate_loop(r, repeat) ==
  IF repeat >= 4
  THEN LET e == end_capture(r) IN
       [r |-> e, v |-> strtol16(CStr(e.buffer), 0) % 65536, err |-> NoErr]
  ELSE LET g == get(r) IN
       IF g.err # NoErr THEN [r |-> g.r, v |-> 0, err |-> g.err]
       ELSE IF ~isxdigit(g.c)
       THEN [r |-> g.r, v |-> 0, err |-> "Invalid hex escape code"]
       ELSE consume_surrogate_loop(g.r, repeat + 1)

consume_surrogate(r) == consume_surrogate_loop(begin_capture(r), 0)

----------------------------------------------------------------------------
(* Values.  A double is kept as sign, significant decimal digits (no       *)
(* leading or trailing zero) and the decimal exponent of its first digit:  *)
(* d1.d2..dn * 10^exp.  Zero has no digits.                                *)

\* The payload `value` of each struct is kept under the name of its type.
Null == [type |-> "Null"]
Bool(b) == [type |-> "Bool", bool |-> b]
Number(d) == [type |-> "Number", number |-> d]
String(s) == [type |-> "String", string |-> s]
Array(elems) == [type |-> "Array", array |-> elems]
Object(entries) == [type |-> "Object", object |-> entries]

is_array(v) == v.type = "Array"
is_bool(v) == v.type = "Bool"
is_null(v) == v.type = "Null"
is_number(v) == v.type = "Number"
is_object(v) == v.type = "Object"
is_string(v) == v.type = "String"

as_array(v) == v.array
as_bool(v) == v.bool
as_number(v) == v.number
as_object(v) == v.object
as_string(v) == v.string

\* the empty std::map
EmptyMap == [k \in {} |-> Null]

\* MapInsert as an assignment m[k] = v, which replaces an entry
MapInsert_Overwrite(m, k, v) ==
  [x \in (DOMAIN m) \cup {k} |-> IF x = k THEN v ELSE m[x]]

\* std::map::insert: an entry whose key is already present is left alone
MapInsert(m, k, v) ==
  IF k \in DOMAIN m THEN m
  ELSE [x \in (DOMAIN m) \cup {k} |-> IF x = k THEN v ELSE m[x]]

\* std::string comparison: lexicographic on the bytes
RECURSIVE StrLess(_, _)
StrLess(a, b) ==
  IF b = <<>> THEN FALSE
  ELSE IF a = <<>> THEN TRUE
  ELSE IF Head(a) # Head(b) THEN Head(a) < Head(b)
  ELSE StrLess(Tail(a), Tail(b))

\* SortedKeys with the comparison reversed
RECURSIVE SortedKeys_Reversed(_)
SortedKeys_Reversed(ks) ==
  IF ks = {} THEN <<>>
  ELSE LET m == CHOOSE k \in ks : \A o \in ks \ {k} : StrLess(o, k)
       IN <<m>> \o SortedKeys_Reversed(ks \ {m})

\* the keys of a std::map in iteration order
RECURSIVE SortedKeys(_)
SortedKeys(ks) ==
  IF ks = {} THEN <<>>
  ELSE LET m == CHOOSE k \in ks : \A o \in ks \ {k} : StrLess(k, o)
       IN <<m>> \o SortedKeys(ks \ {m})

----------------------------------------------------------------------------
(* atof, as applied to the captured number token                            *)

MaxDoubleExp == 308
MinDoubleExp == -324
ExpCap == 100000

Dbl(neg, digits, exp) == [kind |-> "finite", neg |-> neg, digits |-> digits, exp |-> exp]
Zero(neg) == Dbl(neg, <<>>, 0)
Infinity(neg) == [kind |-> "inf", neg |-> neg, digits |-> <<>>, exp |-> 0]
NaN == [kind |-> "nan", neg |-> FALSE, digits |-> <<>>, exp |-> 0]

\* the leading run of decimal digits of s, as digit values
RECURSIVE DigitRun(_)
DigitRun(s) ==
  IF s = <<>> \/ ~isdigit(Head(s)) THEN <<>>
  ELSE <<Head(s) - CH_0>> \o DigitRun(Tail(s))

Drop(s, n) == SubSeq(s, n + 1, Len(s))

RECURSIVE LeadingZeros(_)
LeadingZeros(ds) ==
  IF ds = <<>> \/ Head(ds) # 0 THEN 0 ELSE 1 + LeadingZeros(Tail(ds))

RECURSIVE StripTrailingZeros(_)
StripTrailingZeros(ds) ==
  IF ds = <<>> \/ ds[Len(ds)] # 0 THEN ds
  ELSE StripTrailingZeros(SubSeq(ds, 1, Len(ds) - 1))

\* the value of a digit run, saturating at ExpCap
RECURSIVE DecVal(_, _)
DecVal(ds, acc) ==
  IF ds = <<>> THEN acc
  ELSE IF acc >= ExpCap THEN ExpCap
  ELSE DecVal(Tail(ds), acc * 10 + Head(ds))

\* the first six digits of ds, zero padded, as a number
First6(ds) == DecVal([i \in 1..6 |-> IF i <= Len(ds) THEN ds[i] ELSE 0], 0)

atof(tok) ==
  LET neg == tok # <<>> /\ Head(tok) = CH_MINUS
      s1 == IF neg \/ (tok # <<>> /\ Head(tok) = CH_PLUS) THEN Tail(tok) ELSE tok
      intd == DigitRun(s1)
      s2 == Drop(s1, Len(intd))
      hasdot == s2 # <<>> /\ Head(s2) = CH_DOT
      fracd == IF hasdot THEN DigitRun(Tail(s2)) ELSE <<>>
      s3 == IF hasdot THEN Drop(s2, 1 + Len(fracd)) ELSE s2
      hase == s3 # <<>> /\ Head(s3) \in {CH_e, CH_UE}
      s4 == IF hase THEN Tail(s3) ELSE <<>>
      eneg == s4 # <<>> /\ Head(s4) = CH_MINUS
      s5 == IF s4 # <<>> /\ Head(s4) \in {CH_MINUS, CH_PLUS} THEN Tail(s4) ELSE s4
      expd == DigitRun(s5)
      expv == IF eneg THEN 0 - DecVal(expd, 0) ELSE DecVal(expd, 0)
      all == intd \o fracd
      z == LeadingZeros(all)
      digits == StripTrailingZeros(Drop(all, z))
      exp == Len(intd) - 1 - z + expv
  IN
  IF digits = <<>> THEN Zero(neg)
  ELSE IF exp > MaxDoubleExp \/ (exp = MaxDoubleExp /\ First6(digits) > 179769)
  THEN Infinity(neg)
  ELSE IF exp < MinDoubleExp THEN Zero(neg)
  ELSE Dbl(neg, digits, exp)

----------------------------------------------------------------------------
(* Serializer                                                               *)

\* EscapeBytes with the case for form feed left out
RECURSIVE EscapeBytes_MissingCase(_)
EscapeBytes_MissingCase(s) ==
  IF s = <<>> THEN <<>>
  ELSE LET ch == Head(s)
           e == IF ch = CH_BS THEN <<CH_BACKSLASH, CH_b>>
                ELSE IF ch = CH_LF THEN <<CH_BACKSLASH, CH_n>>
                ELSE IF ch = CH_TAB THEN <<CH_BACKSLASH, CH_t>>
                ELSE IF ch = CH_CR THEN <<CH_BACKSLASH, CH_r>>
                ELSE IF ch = CH_QUOTE THEN <<CH_BACKSLASH, CH_QUOTE>>
                ELSE <<ch>>
       IN e \o EscapeBytes_MissingCase(Tail(s))

\* static void print(std::ostream &out, const std::string &value)
RECURSIVE EscapeBytes(_)
EscapeBytes(s) ==
  IF s = <<>> THEN <<>>
  ELSE LET ch == Head(s)
           e == IF ch = CH_BS THEN <<CH_BACKSLASH, CH_b>>
                ELSE IF ch = CH_FF THEN <<CH_BACKSLASH, CH_f>>
                ELSE IF ch = CH_LF THEN <<CH_BACKSLASH, CH_n>>
                ELSE IF ch = CH_TAB THEN <<CH_BACKSLASH, CH_t>>
                ELSE IF ch = CH_CR THEN <<CH_BACKSLASH, CH_r>>
                ELSE IF ch = CH_QUOTE THEN <<CH_BACKSLASH, CH_QUOTE>>
                ELSE <<ch>>
       IN e \o EscapeBytes(Tail(s))

print(s) == <<CH_QUOTE>> \o EscapeBytes(s) \o <<CH_QUOTE>>

\* the precision of a std::ostream that was never configured
Precision == 6

RECURSIVE NatDigits(_)
NatDigits(n) ==
  IF n < 10 THEN <<n>> ELSE NatDigits(n \div 10) \o <<n % 10>>

DigitChars(ds) == [i \in 1..Len(ds) |-> CH_0 + ds[i]]

Zeros(n) == [i \in 1..n |-> 0]

\* d rounded to Precision significant digits (on its decimal digits)
RoundDbl(d) ==
  IF Len(d.digits) <= Precision THEN d
  ELSE LET kept == SubSeq(d.digits, 1, Precision)
           up == d.digits[Precision + 1] >= 5
           n == DecVal(kept, 0) + (IF up THEN 1 ELSE 0)
           nd == NatDigits(n)
       IN IF Len(nd) > Precision
          THEN Dbl(d.neg, <<1>>, d.exp + 1)
          ELSE Dbl(d.neg, StripTrailingZeros(nd), d.exp)

\* out << value for a finite double: the %g form
PrintFinite(d0) ==
  LET d == RoundDbl(d0)
      sign == IF d.neg THEN <<CH_MINUS>> ELSE <<>>
      n == Len(d.digits)
      x == d.exp
      sci == <<CH_0 + d.digits[1]>>
             \o (IF n > 1 THEN <<CH_DOT>> \o DigitChars(Tail(d.digits)) ELSE <<>>)
             \o <<CH_e, IF x < 0 THEN CH_MINUS ELSE CH_PLUS>>
             \o (LET m == IF x < 0 THEN 0 - x ELSE x
                 IN IF m < 10 THEN <<CH_0, CH_0 + m>> ELSE DigitChars(NatDigits(m)))
      fixed == IF x >= 0
               THEN IF n <= x + 1
                    THEN DigitChars(d.digits \o Zeros(x + 1 - n))
                    ELSE DigitChars(SubSeq(d.digits, 1, x + 1)) \o <<CH_DOT>>
                         \o DigitChars(Drop(d.digits, x + 1))
               ELSE <<CH_0, CH_DOT>> \o DigitChars(Zeros(0 - x - 1) \o d.digits)
  IN
  IF n = 0 THEN sign \o <<CH_0>>
  ELSE IF x < -4 \/ x >= Precision THEN sign \o sci
  ELSE sign \o fixed

\* void Number::print(std::ostream &out) const
NumberPrint(d) ==
  IF d.kind = "inf" /\ ~d.neg
  THEN <<CH_1, CH_DOT, CH_0, CH_e, CH_5, CH_0, CH_0, CH_0>>
  ELSE IF d.kind = "inf"
  THEN <<CH_MINUS, CH_1, CH_DOT, CH_0, CH_e, CH_5, CH_0, CH_0, CH_0>>
  ELSE IF d.kind = "nan" THEN <<CH_n, CH_u, CH_l, CH_l>>
  ELSE PrintFinite(d)

\* the print methods of the six Value types
RECURSIVE ValuePrint(_)
RECURSIVE ArrayPrint(_, _)
RECURSIVE ObjectPrint(_, _, _)

\* ArrayPrint writing the separator before every element
RECURSIVE ArrayPrint_LeadingSeparator(_, _)
ArrayPrint_LeadingSeparator(elems, i) ==
  IF i > Len(elems) THEN <<>>
  ELSE <<CH_COMMA, CH_SPACE>> \o ValuePrint(elems[i])
       \o ArrayPrint_LeadingSeparator(elems, i + 1)

\* the loop of Array::print, from element i on
ArrayPrint(elems, i) ==
  IF i > Len(elems) THEN <<>>
  ELSE (IF i # 1 THEN <<CH_COMMA, CH_SPACE>> ELSE <<>>)
       \o ValuePrint(elems[i]) \o ArrayPrint(elems, i + 1)

\* the loop of Object::print, over the keys in map order, from key i on
ObjectPrint(m, keys, i) ==
  IF i > Len(keys) THEN <<>>
  ELSE (IF i # 1 THEN <<CH_COMMA, CH_SPACE>> ELSE <<>>)
       \o print(keys[i]) \o <<CH_COLON, CH_SPACE>>
       \o ValuePrint(m[keys[i]]) \o ObjectPrint(m, keys, i + 1)

ValuePrint(v) ==
  IF is_null(v) THEN <<CH_n, CH_u, CH_l, CH_l>>
  ELSE IF is_bool(v)
  THEN IF as_bool(v) THEN <<CH_t, CH_r, CH_u, CH_e>>
       ELSE <<CH_f, CH_a, CH_l, CH_s, CH_e>>
  ELSE IF is_number(v) THEN NumberPrint(as_number(v))
  ELSE IF is_string(v) THEN print(as_string(v))
  ELSE IF is_array(v)
  THEN <<CH_LBRACKET>> \o ArrayPrint(as_array(v), 1) \o <<CH_RBRACKET>>
  ELSE <<CH_LBRACE>>
       \o ObjectPrint(as_object(v), SortedKeys(DOMAIN as_object(v)), 1)
       \o <<CH_RBRACE>>

----------------------------------------------------------------------------
(* The parser.  pc names the statement of parse(Reader &) at which the     *)
(* running activation stands; a recursive call pushes the caller's frame   *)
(* (its `result` under construction, its key `left`, and where it resumes) *)
(* and starts a new activation at "parse"; a return leaves the value in    *)
(* ret at pc = "return", where the caller on top of the stack resumes.     *)

Running == [status |-> "running", value |-> Null, what |-> NoErr, line |-> 0]

Frame(kind, at, res, left) == [kind |-> kind, at |-> at, result |-> res, left |-> left]

Top == stack[Len(stack)]
Pop == SubSeq(stack, 1, Len(stack) - 1)

\* a ParseError that is recorded while the activation goes on with a
\* Null in place of the value it could not parse
Throw_Recover(r, what) ==
  /\ reader' = r
  /\ result' = [status |-> "error", value |-> Null, what |-> what, line |-> r.line]
  /\ ret' = Null
  /\ pc' = "return"
  /\ UNCHANGED <<input, stack, c, value, high, low, out, origin, prior>>

\* throw ParseError(what, r.line): every activation is unwound
Throw(r, what) ==
  /\ reader' = r
  /\ result' = [status |-> "error", value |-> Null, what |-> what, line |-> r.line]
  /\ pc' = "done"
  /\ stack' = <<>>
  /\ UNCHANGED <<input, c, value, high, low, ret, out, origin, prior>>

\* the entry of parse(Reader &) without the end_capture() for a first
\* character that does not start a number
ParseValue_KeepsCapture ==
  /\ pc = "parse"
  /\ LET g == get(begin_capture(skip_ws(reader)))
         r == g.r
     IN IF g.err # NoErr THEN Throw(g.r, g.err)
        ELSE IF g.c \in {CH_LBRACE, CH_LBRACKET, CH_QUOTE, CH_MINUS, CH_t, CH_f, CH_n}
                \/ isdigit(g.c)
        THEN /\ reader' = r
             /\ c' = g.c
             /\ pc' = IF g.c = CH_LBRACE THEN "object"
                      ELSE IF g.c = CH_LBRACKET THEN "array"
                      ELSE IF g.c = CH_QUOTE THEN "string"
                      ELSE IF g.c = CH_MINUS THEN "minus"
                      ELSE IF isdigit(g.c) THEN "number"
                      ELSE "literal"
             /\ UNCHANGED <<input, stack, value, high, low, ret, result, out, origin, prior>>
        ELSE Throw(r, "Invalid structure or literal")

\* parse(Reader &), entry: skip_ws, begin_capture, get, dispatch on c
ParseValue ==
  /\ pc = "parse"
  /\ LET g == get(begin_capture(skip_ws(reader)))
         r == IF ~(isdigit(g.c) \/ g.c = CH_MINUS) THEN end_capture(g.r) ELSE g.r
     IN IF g.err # NoErr THEN Throw(g.r, g.err)
        ELSE IF g.c \in {CH_LBRACE, CH_LBRACKET, CH_QUOTE, CH_MINUS, CH_t, CH_f, CH_n}
                \/ isdigit(g.c)
        THEN /\ reader' = r
             /\ c' = g.c
             /\ pc' = IF g.c = CH_LBRACE THEN "object"
                      ELSE IF g.c = CH_LBRACKET THEN "array"
                      ELSE IF g.c = CH_QUOTE THEN "string"
                      ELSE IF g.c = CH_MINUS THEN "minus"
                      ELSE IF isdigit(g.c) THEN "number"
                      ELSE "literal"
             /\ UNCHANGED <<input, stack, value, high, low, ret, result, out, origin, prior>>
        ELSE Throw(r, "Invalid structure or literal")

\* case '{': up to the first recursive call, or the empty object
ObjectOpen ==
  /\ pc = "object"
  /\ LET g == get(skip_ws(reader)) IN
     IF g.err # NoErr THEN Throw(g.r, g.err)
     ELSE IF g.c # CH_RBRACE
     THEN /\ reader' = unget(g.r)
          /\ c' = g.c
          /\ stack' = Append(stack, Frame("Object", "key", EmptyMap, <<>>))
          /\ pc' = "parse"
          /\ UNCHANGED <<input, value, high, low, ret, result, out, origin, prior>>
     ELSE /\ reader' = g.r
          /\ c' = g.c
          /\ ret' = Object(EmptyMap)
          /\ pc' = "return"
          /\ UNCHANGED <<input, stack, value, high, low, result, out, origin, prior>>

\* object loop, after `left = parse(reader)` returned: the key must be a
\* String and be followed by ':'; then the value is parsed
ObjectKey ==
  /\ pc = "return"
  /\ stack # <<>>
  /\ Top.kind = "Object" /\ Top.at = "key"
  /\ IF ~is_string(ret) THEN Throw(reader, "Expected string key")
     ELSE LET g == get(skip_ws(reader)) IN
          IF g.err # NoErr THEN Throw(g.r, g.err)
          ELSE IF g.c # CH_COLON THEN Throw(g.r, "Expected ':' after key")
          ELSE /\ reader' = g.r
               /\ c' = g.c
               /\ stack' = Append(Pop, Frame("Object", "value", Top.result, as_string(ret)))
               /\ pc' = "parse"
               /\ UNCHANGED <<input, value, high, low, ret, result, out, origin, prior>>

\* object loop, after the value's parse(reader) returned: insert, then
\* '}' ends the object and ',' starts the next entry
ObjectValue ==
  /\ pc = "return"
  /\ stack # <<>>
  /\ Top.kind = "Object" /\ Top.at = "value"
  /\ LET res == MapInsert(Top.result, Top.left, ret)
         g == get(skip_ws(reader))
     IN IF g.err # NoErr THEN Throw(g.r, g.err)
        ELSE IF g.c = CH_RBRACE
        THEN /\ reader' = g.r
             /\ c' = g.c
             /\ stack' = Pop
             /\ ret' = Object(res)
             /\ pc' = "return"
             /\ UNCHANGED <<input, value, high, low, result, out, origin, prior>>
        ELSE IF g.c = CH_COMMA
        THEN /\ reader' = g.r
             /\ c' = g.c
             /\ stack' = Append(Pop, Frame("Object", "key", res, <<>>))
             /\ pc' = "parse"
             /\ UNCHANGED <<input, value, high, low, ret, result, out, origin, prior>>
        ELSE Throw(g.r, "Expected ',' or '}' after value")

\* case '[': up to the first recursive call, or the empty array
ArrayOpen ==
  /\ pc = "array"
  /\ LET g == get(skip_ws(reader)) IN
     IF g.err # NoErr THEN Throw(g.r, g.err)
     ELSE IF g.c # CH_RBRACKET
     THEN /\ reader' = unget(g.r)
          /\ c' = g.c
          /\ stack' = Append(stack, Frame("Array", "element", <<>>, <<>>))
          /\ pc' = "parse"
          /\ UNCHANGED <<input, value, high, low, ret, result, out, origin, prior>>
     ELSE /\ reader' = g.r
          /\ c' = g.c
          /\ ret' = Array(<<>>)
          /\ pc' = "return"
          /\ UNCHANGED <<input, stack, value, high, low, result, out, origin, prior>>

\* the array loop accepting ']' after ','
ArrayElement_TrailingComma ==
  /\ pc = "return"
  /\ stack # <<>>
  /\ Top.kind = "Array"
  /\ LET res == Append(Top.result, ret)
         g == get(skip_ws(reader))
         h == get(skip_ws(g.r))
     IN IF g.err # NoErr THEN Throw(g.r, g.err)
        ELSE IF g.c = CH_RBRACKET \/ (g.c = CH_COMMA /\ h.err = NoErr /\ h.c = CH_RBRACKET)
        THEN /\ reader' = IF g.c = CH_RBRACKET THEN g.r ELSE h.r
             /\ c' = CH_RBRACKET
             /\ stack' = Pop
             /\ ret' = Array(res)
             /\ pc' = "return"
             /\ UNCHANGED <<input, value, high, low, result, out, origin, prior>>
        ELSE IF g.c = CH_COMMA
        THEN /\ reader' = g.r
             /\ c' = g.c
             /\ stack' = Append(Pop, Frame("Array", "element", res, <<>>))
             /\ pc' = "parse"
             /\ UNCHANGED <<input, value, high, low, ret, result, out, origin, prior>>
        ELSE Throw(g.r, "Expected ',' or ']' after value")

\* array loop, after the element's parse(reader) returned
ArrayElement ==
  /\ pc = "return"
  /\ stack # <<>>
  /\ Top.kind = "Array"
  /\ LET res == Append(Top.result, ret)
         g == get(skip_ws(reader))
     IN IF g.err # NoErr THEN Throw(g.r, g.err)
        ELSE IF g.c = CH_RBRACKET
        THEN /\ reader' = g.r
             /\ c' = g.c
             /\ stack' = Pop
             /\ ret' = Array(res)
             /\ pc' = "return"
             /\ UNCHANGED <<input, value, high, low, result, out, origin, prior>>
        ELSE IF g.c = CH_COMMA
        THEN /\ reader' = g.r
             /\ c' = g.c
             /\ stack' = Append(Pop, Frame("Array", "element", res, <<>>))
             /\ pc' = "parse"
             /\ UNCHANGED <<input, value, high, low, ret, result, out, origin, prior>>
        ELSE Throw(g.r, "Expected ',' or ']' after value")

\* case '"': the first character of the string
StringOpen ==
  /\ pc = "string"
  /\ LET g == get(reader) IN
     IF g.err # NoErr THEN Throw(g.r, g.err)
     ELSE /\ reader' = g.r
          /\ c' = g.c
          /\ value' = <<>>
          /\ pc' = "string_loop"
          /\ UNCHANGED <<input, stack, high, low, ret, result, out, origin, prior>>

\* the character a one-letter escape stands for
Unescape(ch) ==
  IF ch = CH_b THEN CH_BS
  ELSE IF ch = CH_f THEN CH_FF
  ELSE IF ch = CH_n THEN CH_LF
  ELSE IF ch = CH_r THEN CH_CR
  ELSE IF ch = CH_t THEN CH_TAB
  ELSE ch

\* one iteration of the string loop that does not go through case 'u'
StringChar ==
  /\ pc = "string_loop"
  /\ IF c = CH_QUOTE
     THEN /\ ret' = String(value)
          /\ pc' = "return"
          /\ UNCHANGED <<input, reader, stack, c, value, high, low, result, out, origin, prior>>
     ELSE IF c = CH_LF
     THEN Throw(reader, "Missing string termination before EOL")
     ELSE IF c = CH_BACKSLASH
     THEN LET e == get(reader) IN
          IF e.err # NoErr THEN Throw(e.r, e.err)
          ELSE IF e.c = CH_u
          THEN /\ reader' = e.r
               /\ c' = e.c
               /\ pc' = "u_high"
               /\ UNCHANGED <<input, stack, value, high, low, ret, result, out, origin, prior>>
          ELSE IF e.c \in {CH_QUOTE, CH_SLASH, CH_BACKSLASH, CH_b, CH_f, CH_n, CH_r, CH_t}
          THEN LET g == get(e.r) IN
               IF g.err # NoErr THEN Throw(g.r, g.err)
               ELSE /\ reader' = g.r
                    /\ c' = g.c
                    /\ value' = Append(value, Unescape(e.c))
                    /\ UNCHANGED <<input, pc, stack, high, low, ret, result, out, origin, prior>>
          ELSE Throw(e.r, "Invalid escape code")
     ELSE LET g == get(reader) IN
          IF g.err # NoErr THEN Throw(g.r, g.err)
          ELSE /\ reader' = g.r
               /\ c' = g.c
               /\ value' = Append(value, c)
               /\ UNCHANGED <<input, pc, stack, high, low, ret, result, out, origin, prior>>

\* case 'u': high = consume_surrogate(); low = 0
UnicodeHigh ==
  /\ pc = "u_high"
  /\ LET s == consume_surrogate(reader) IN
     IF s.err # NoErr THEN Throw(s.r, s.err)
     ELSE /\ reader' = s.r
          /\ high' = s.v
          /\ low' = 0
          /\ pc' = "u_low"
          /\ UNCHANGED <<input, stack, c, value, ret, result, out, origin, prior>>

\* case 'u': a high surrogate must be followed by \u and a second unit
UnicodeLow ==
  /\ pc = "u_low"
  /\ IF high >= 55296 /\ high <= 56319
     THEN LET k == consume(reader, <<CH_BACKSLASH, CH_u>>, "Expected unicode surrogate pair")
              s == consume_surrogate(k.r)
          IN IF k.err # NoErr THEN Throw(k.r, k.err)
             ELSE IF s.err # NoErr THEN Throw(s.r, s.err)
             ELSE /\ reader' = s.r
                  /\ low' = s.v
                  /\ pc' = "u_append"
                  /\ UNCHANGED <<input, stack, c, value, high, ret, result, out, origin, prior>>
     ELSE /\ pc' = "u_append"
          /\ UNCHANGED <<input, reader, stack, c, value, high, low, ret, result, out, origin, prior>>

\* case 'u': value.append(utf16_to_utf8(high, low)); c = get(); continue
UnicodeAppend ==
  /\ pc = "u_append"
  /\ LET u == utf16_to_utf8(high, low)
         g == get(reader)
     IN IF u.err # NoErr THEN Throw(reader, u.err)
        ELSE IF g.err # NoErr THEN Throw(g.r, g.err)
        ELSE /\ reader' = g.r
             /\ c' = g.c
             /\ value' = value \o u.s
             /\ pc' = "string_loop"
             /\ UNCHANGED <<input, stack, high, low, ret, result, out, origin, prior>>

\* c = get(), going on at `digit` when c is a digit and at `other` when not
GetStep(digit, other) ==
  LET g == get(reader) IN
  IF g.err # NoErr THEN Throw(g.r, g.err)
  ELSE /\ reader' = g.r
       /\ c' = g.c
       /\ pc' = IF isdigit(g.c) THEN digit ELSE other
       /\ UNCHANGED <<input, stack, value, high, low, ret, result, out, origin, prior>>

\* case '-': c = get(), falling into the digit case
NumberMinus ==
  /\ pc = "minus"
  /\ GetStep("number", "number")

\* the leading digit: a single '0', or a digit that starts a run
NumberFirst ==
  /\ pc = "number"
  /\ IF c = CH_0 THEN GetStep("num_dot", "num_dot")
     ELSE IF ~isdigit(c) THEN Throw(reader, "Invalid number format")
     ELSE /\ pc' = "num_int"
          /\ UNCHANGED <<input, reader, stack, c, value, high, low, ret, result, out, origin, prior>>

\* one iteration of the integer digit loop
NumberInt ==
  /\ pc = "num_int"
  /\ GetStep("num_int", "num_dot")

\* if (c == '.')
NumberDot ==
  /\ pc = "num_dot"
  /\ pc' = IF c = CH_DOT THEN "num_frac" ELSE "num_e"
  /\ UNCHANGED <<input, reader, stack, c, value, high, low, ret, result, out, origin, prior>>

\* one iteration of the fraction digit loop
NumberFrac ==
  /\ pc = "num_frac"
  /\ GetStep("num_frac", "num_e")

\* the number case going back to the test for '.' when there is no exponent
NumberE_NoExit ==
  /\ pc = "num_e"
  /\ IF c \in {CH_e, CH_UE}
     THEN LET g1 == get(reader)
              g2 == IF g1.err = NoErr /\ g1.c \in {CH_MINUS, CH_PLUS} THEN get(g1.r) ELSE g1
          IN IF g2.err # NoErr THEN Throw(g2.r, g2.err)
             ELSE IF ~isdigit(g2.c) THEN Throw(g2.r, "Invalid number format")
             ELSE /\ reader' = g2.r
                  /\ c' = g2.c
                  /\ pc' = "num_exp"
                  /\ UNCHANGED <<input, stack, value, high, low, ret, result, out, origin, prior>>
     ELSE /\ pc' = "num_dot"
          /\ UNCHANGED <<input, reader, stack, c, value, high, low, ret, result, out, origin, prior>>

\* if (c == 'e' || c == 'E'): the optional sign and the first exponent digit
NumberE ==
  /\ pc = "num_e"
  /\ IF c \in {CH_e, CH_UE}
     THEN LET g1 == get(reader)
              g2 == IF g1.err = NoErr /\ g1.c \in {CH_MINUS, CH_PLUS} THEN get(g1.r) ELSE g1
          IN IF g2.err # NoErr THEN Throw(g2.r, g2.err)
             ELSE IF ~isdigit(g2.c) THEN Throw(g2.r, "Invalid number format")
             ELSE /\ reader' = g2.r
                  /\ c' = g2.c
                  /\ pc' = "num_exp"
                  /\ UNCHANGED <<input, stack, value, high, low, ret, result, out, origin, prior>>
     ELSE /\ pc' = "num_end"
          /\ UNCHANGED <<input, reader, stack, c, value, high, low, ret, result, out, origin, prior>>

\* one iteration of the exponent digit loop
NumberExp ==
  /\ pc = "num_exp"
  /\ GetStep("num_exp", "num_end")

\* unget(); end_capture(); return Number(atof(buffer))
NumberEnd ==
  /\ pc = "num_end"
  /\ LET r == end_capture(unget(reader)) IN
     /\ reader' = r
     /\ ret' = Number(atof(CStr(r.buffer)))
     /\ pc' = "return"
     /\ UNCHANGED <<input, stack, c, value, high, low, result, out, origin, prior>>

\* cases 't', 'f', 'n': the rest of the keyword
Literal ==
  /\ pc = "literal"
  /\ LET k == IF c = CH_t THEN consume(reader, <<CH_r, CH_u, CH_e>>, "Invalid literal")
              ELSE IF c = CH_f THEN consume(reader, <<CH_a, CH_l, CH_s, CH_e>>, "Invalid literal")
              ELSE consume(reader, <<CH_u, CH_l, CH_l>>, "Invalid literal")
     IN IF k.err # NoErr THEN Throw(k.r, k.err)
        ELSE /\ reader' = k.r
             /\ ret' = IF c = CH_t THEN Bool(TRUE)
                       ELSE IF c = CH_f THEN Bool(FALSE)
                       ELSE Null
             /\ pc' = "return"
             /\ UNCHANGED <<input, stack, c, value, high, low, result, out, origin, prior>>

\* TopLevel without the in.eof() test
TopLevel_NoEofCheck ==
  /\ pc = "return"
  /\ stack = <<>>
  /\ reader' = skip_ws(reader)
  /\ result' = [status |-> "value", value |-> ret, what |-> NoErr, line |-> 0]
  /\ pc' = "done"
  /\ UNCHANGED <<input, stack, c, value, high, low, ret, out, origin, prior>>

\* parse(std::istream &), after the top-level parse(reader) returned
TopLevel ==
  /\ pc = "return"
  /\ stack = <<>>
  /\ LET r == skip_ws(reader) IN
     IF r.eofbit
     THEN /\ reader' = r
          /\ result' = [status |-> "value", value |-> ret, what |-> NoErr, line |-> 0]
          /\ pc' = "done"
          /\ UNCHANGED <<input, stack, c, value, high, low, ret, out, origin, prior>>
     ELSE Throw(r, "Invalid structure or literal")

\* std::cout << value, for the value parse returned
WriteValue ==
  /\ pc = "done"
  /\ result.status = "value"
  /\ out' = ValuePrint(result.value)
  /\ pc' = "printed"
  /\ UNCHANGED <<input, reader, stack, c, value, high, low, ret, result, origin, prior>>

Origin(kind, v, es) == [kind |-> kind, value |-> v, entries |-> es]

----------------------------------------------------------------------------
(* The documents handed to parse                                            *)

\* the documents named by the README and the specification's examples
DocExample == <<CH_LBRACE, CH_QUOTE, CH_a, CH_QUOTE, CH_COLON, CH_SPACE, CH_1, CH_COMMA, CH_SPACE, CH_QUOTE, CH_b, CH_QUOTE, CH_COLON, CH_SPACE, CH_LBRACKET, CH_t, CH_r, CH_u, CH_e, CH_COMMA, CH_SPACE, CH_f, CH_a, CH_l, CH_s, CH_e, CH_COMMA, CH_SPACE, CH_n, CH_u, CH_l, CH_l, CH_RBRACKET, CH_RBRACE>>
DocSurrogatePair == <<CH_QUOTE, CH_BACKSLASH, CH_u, CH_UD, CH_8, CH_3, CH_UD, CH_BACKSLASH, CH_u, CH_UD, CH_UE, CH_0, CH_0, CH_QUOTE>>
DocLoneHigh == <<CH_QUOTE, CH_BACKSLASH, CH_u, CH_UD, CH_8, CH_3, CH_UD, CH_x, CH_QUOTE>>
DocTruncated == <<CH_LBRACKET, CH_1, CH_COMMA, CH_2, CH_COMMA>>
DocNul == <<CH_n, CH_u, CH_l>>
DocTrailing == <<CH_1, CH_2, CH_3, CH_SPACE, CH_a, CH_b, CH_c>>
DocDuplicate == <<CH_LBRACE, CH_QUOTE, CH_a, CH_QUOTE, CH_COLON, CH_1, CH_COMMA, CH_QUOTE, CH_a, CH_QUOTE, CH_COLON, CH_2, CH_RBRACE>>
DocNumber == <<CH_MINUS, CH_1, CH_DOT, CH_5, CH_e, CH_PLUS, CH_3, CH_LF>>
DocMixed == <<CH_LBRACKET, CH_MINUS, CH_1, CH_DOT, CH_5, CH_e, CH_PLUS, CH_3, CH_COMMA, CH_SPACE, CH_QUOTE, CH_a, CH_BACKSLASH, CH_n, CH_QUOTE, CH_RBRACKET>>
DocNested == <<CH_LBRACE, CH_QUOTE, CH_a, CH_QUOTE, CH_COLON, CH_SPACE, CH_LBRACKET, CH_n, CH_u, CH_l, CH_l, CH_COMMA, CH_SPACE, CH_t, CH_r, CH_u, CH_e, CH_RBRACKET, CH_COMMA, CH_SPACE, CH_QUOTE, CH_b, CH_QUOTE, CH_COLON, CH_SPACE, CH_LBRACE, CH_RBRACE, CH_RBRACE>>
DocEmptyArray == <<CH_LBRACKET, CH_RBRACKET>>
DocEmptyObject == <<CH_LBRACE, CH_RBRACE>>

Corpus ==
  {DocExample, DocSurrogatePair, DocLoneHigh, DocTruncated, DocNul, DocTrailing,
   DocDuplicate, DocNumber, DocMixed, DocNested, DocEmptyArray, DocEmptyObject}

SeqsUpTo(S, n) == UNION {[1..k -> S] : k \in 0..n}

RECURSIVE Flatten(_)
Flatten(ss) == IF ss = <<>> THEN <<>> ELSE Head(ss) \o Flatten(Tail(ss))

RECURSIVE Join(_, _)
Join(parts, sep) ==
  IF parts = <<>> THEN <<>>
  ELSE IF Len(parts) = 1 THEN parts[1]
  ELSE parts[1] \o sep \o Join(Tail(parts), sep)

\* every short text over the structural characters
MaxTextLen == 4
TextAlphabet ==
  {CH_LBRACKET, CH_RBRACKET, CH_1, CH_COMMA, CH_SPACE, CH_LF, CH_QUOTE, CH_a}
ShortTexts == SeqsUpTo(TextAlphabet, MaxTextLen)

\* every short text over the characters of numbers, followed by a space or
\* placed in an array
MaxNumLen == 4
NumAlphabet == {CH_MINUS, CH_0, CH_1, CH_DOT, CH_e, CH_PLUS}
NumberTexts ==
  UNION {{tok \o <<CH_SPACE>>, <<CH_LBRACKET>> \o tok \o <<CH_RBRACKET>>} :
         tok \in SeqsUpTo(NumAlphabet, MaxNumLen)}

\* strings written with escapes and raw control characters
MaxItems == 2
StringItems ==
  {<<CH_a>>, <<CH_TAB>>, <<1>>, <<CH_BACKSLASH, CH_BACKSLASH>>,
   <<CH_BACKSLASH, CH_QUOTE>>, <<CH_BACKSLASH, CH_SLASH>>,
   <<CH_BACKSLASH, CH_b>>, <<CH_BACKSLASH, CH_f>>, <<CH_BACKSLASH, CH_n>>,
   <<CH_BACKSLASH, CH_r>>, <<CH_BACKSLASH, CH_t>>}
StringTexts ==
  {<<CH_QUOTE>> \o Flatten(items) \o <<CH_QUOTE>> :
   items \in SeqsUpTo(StringItems, MaxItems)}

\* strings written with \u escapes: one unit, two units, and a unit
\* followed by something else
Quads ==
  {<<d1, d2, d3, d4>> : d1 \in {CH_0, CH_5, CH_UD, CH_UF},
                        d2 \in {CH_0, CH_7, CH_8, CH_UB, CH_UC, CH_UF},
                        d3 \in {CH_0, CH_7, CH_8, CH_UF},
                        d4 \in {CH_0, CH_UF, CH_a}}
FirstQuads == {q \in Quads : q[1] = CH_UD}
SecondQuads == {q \in Quads : q[1] \in {CH_0, CH_UD} /\ q[3] \in {CH_0, CH_UF}
                              /\ q[4] \in {CH_0, CH_UF}}
Esc(q) == <<CH_BACKSLASH, CH_u>> \o q
UnicodeTails ==
  {<<>>, <<CH_QUOTE>>, <<CH_x, CH_QUOTE>>, <<CH_BACKSLASH>>,
   <<CH_BACKSLASH, CH_n, CH_QUOTE>>, <<CH_BACKSLASH, CH_u>>,
   <<CH_BACKSLASH, CH_u, CH_UD>>,
   <<CH_BACKSLASH, CH_u, CH_0, CH_0, CH_x, CH_x, CH_QUOTE>>}
UnicodeTexts ==
  {<<CH_QUOTE>> \o Esc(q) \o <<CH_QUOTE>> : q \in Quads}
  \cup {<<CH_QUOTE>> \o Esc(q[1]) \o Esc(q[2]) \o <<CH_QUOTE>> :
        q \in FirstQuads \X SecondQuads}
  \cup {<<CH_QUOTE>> \o Esc(q[1]) \o q[2] : q \in FirstQuads \X UnicodeTails}

TextInputs == Corpus \cup ShortTexts \cup NumberTexts \cup StringTexts \cup UnicodeTexts

\* values handed to operator<<, whose text is then parsed
MaxStrLen == 2
MaxElems == 2
One == Dbl(FALSE, <<1>>, 0)
Two == Dbl(FALSE, <<2>>, 0)
Doubles ==
  {Zero(FALSE), Zero(TRUE), One, Dbl(TRUE, <<1>>, 0), Dbl(FALSE, <<1, 5>>, 0),
   Dbl(FALSE, <<1, 2>>, 1), Dbl(FALSE, <<1>>, 6), Dbl(TRUE, <<2, 5>>, -5)}
Strings == SeqsUpTo({CH_a, CH_BACKSLASH, CH_QUOTE}, MaxStrLen)
Scalars ==
  {Null, Bool(TRUE), Bool(FALSE)} \cup {Number(d) : d \in Doubles}
  \cup {String(str) : str \in Strings}
ValueKeys == {<<CH_a>>, <<CH_b>>}
MapsOver(keys, vals) == UNION {[ks -> vals] : ks \in SUBSET keys}
Flat ==
  {Array(es) : es \in SeqsUpTo(Scalars, MaxElems)}
  \cup {Object(m) : m \in MapsOver(ValueKeys, Scalars)}
Small == {Array(<<>>), Array(<<Number(One)>>), Object(EmptyMap),
          Object([k \in {<<CH_a>>} |-> Null])}
Nested ==
  {Array(es) : es \in SeqsUpTo(Small, MaxElems)}
  \cup {Object(m) : m \in MapsOver(ValueKeys, Small)}
Values == Scalars \cup Flat \cup Nested

\* objects written entry by entry, with repeated keys and values that are
\* not JSON
MaxEntries == 3
Keys == {<<CH_a>>, <<CH_a, CH_b>>, <<CH_b>>}
EntryValues ==
  {[text |-> <<CH_1>>, ok |-> TRUE, value |-> Number(One)],
   [text |-> <<CH_2>>, ok |-> TRUE, value |-> Number(Two)],
   [text |-> <<CH_LBRACKET, CH_1, CH_RBRACKET>>, ok |-> TRUE,
    value |-> Array(<<Number(One)>>)],
   [text |-> <<CH_t, CH_r, CH_u>>, ok |-> FALSE, value |-> Null]}
Entries == [key : Keys, val : EntryValues]
EntryLists == SeqsUpTo(Entries, MaxEntries) \ {<<>>}
EntryText(e) == <<CH_QUOTE>> \o e.key \o <<CH_QUOTE, CH_COLON>> \o e.val.text
EntriesText(es) ==
  <<CH_LBRACE>> \o Join([i \in 1..Len(es) |-> EntryText(es[i])], <<CH_COMMA>>)
  \o <<CH_RBRACE>>

\* arrays and objects written in the compact form
CanonItems ==
  {<<CH_t, CH_r, CH_u, CH_e>>, <<CH_f, CH_a, CH_l, CH_s, CH_e>>, <<CH_n, CH_u, CH_l, CH_l>>, <<CH_0>>, <<CH_1>>, <<CH_1, CH_2>>, <<CH_MINUS, CH_1>>, <<CH_QUOTE, CH_a, CH_QUOTE>>, <<CH_QUOTE, CH_QUOTE>>, <<CH_LBRACKET, CH_RBRACKET>>, <<CH_LBRACE, CH_RBRACE>>, <<CH_LBRACKET, CH_1, CH_COMMA, CH_SPACE, CH_2, CH_RBRACKET>>, <<CH_LBRACE, CH_QUOTE, CH_a, CH_QUOTE, CH_COLON, CH_SPACE, CH_1, CH_RBRACE>>,
   <<CH_LBRACKET, CH_t, CH_r, CH_u, CH_e, CH_COMMA, CH_SPACE, CH_f, CH_a, CH_l, CH_s, CH_e, CH_COMMA, CH_SPACE, CH_n, CH_u, CH_l, CH_l, CH_RBRACKET>>}
KeyOrder == <<<<CH_a>>, <<CH_a, CH_b>>, <<CH_b>>>>
Absent == <<>>
Present(f) == {i \in 1..Len(KeyOrder) : f[i] # Absent}
RECURSIVE Ascending(_)
Ascending(S) ==
  IF S = {} THEN <<>>
  ELSE LET m == CHOOSE i \in S : \A j \in S : i <= j
       IN <<m>> \o Ascending(S \ {m})
CanonEntry(f, i) ==
  <<CH_QUOTE>> \o KeyOrder[i] \o <<CH_QUOTE, CH_COLON, CH_SPACE>> \o f[i]
CanonObject(f) ==
  LET idx == Ascending(Present(f)) IN
  <<CH_LBRACE>>
  \o Join([n \in 1..Len(idx) |-> CanonEntry(f, idx[n])], <<CH_COMMA, CH_SPACE>>)
  \o <<CH_RBRACE>>
CanonArray(items) ==
  <<CH_LBRACKET>> \o Join(items, <<CH_COMMA, CH_SPACE>>) \o <<CH_RBRACKET>>
CanonTexts ==
  {CanonArray(items) : items \in SeqsUpTo(CanonItems, MaxElems)}
  \cup {CanonObject(f) : f \in [1..Len(KeyOrder) -> CanonItems \cup {Absent}]}

\* documents cut short: every proper prefix of a complete document
DocLiterals == <<CH_LBRACKET, CH_t, CH_r, CH_u, CH_e, CH_COMMA, CH_SPACE, CH_f, CH_a, CH_l, CH_s, CH_e, CH_COMMA, CH_SPACE, CH_n, CH_u, CH_l, CH_l, CH_RBRACKET>>
Complete ==
  {DocExample, DocSurrogatePair, DocMixed, DocNested, DocDuplicate, DocLiterals}
TruncatedTexts ==
  UNION {{SubSeq(d, 1, k) : k \in 0..(Len(d) - 1)} : d \in Complete}

\* number tokens as long as the capture buffer, a little shorter and a
\* little longer, each followed by a terminating character
MaxOver == 2
LongLens == (BufSize - MaxOver)..(BufSize + MaxOver)

Rep(ch, n) == [i \in 1..n |-> ch]

LongTokens(n) ==
  { Rep(CH_1, n),
    <<CH_MINUS>> \o Rep(CH_1, n - 1),
    <<CH_0, CH_DOT>> \o Rep(CH_1, n - 2),
    Rep(CH_1, n - 3) \o <<CH_DOT, CH_1, CH_1>>,
    Rep(CH_1, n - 4) \o <<CH_e, CH_PLUS, CH_1, CH_1>> }

Wrappers ==
  { [pre |-> <<>>, post |-> <<CH_SPACE>>],
    [pre |-> <<>>, post |-> <<CH_LF>>],
    [pre |-> <<CH_LBRACKET>>, post |-> <<CH_RBRACKET>>],
    [pre |-> <<CH_LBRACKET, CH_1, CH_COMMA, CH_SPACE>>, post |-> <<CH_COMMA, CH_1, CH_RBRACKET>>],
    [pre |-> <<CH_LBRACE, CH_QUOTE, CH_a, CH_QUOTE, CH_COLON>>, post |-> <<CH_RBRACE>>] }

LongNumbers ==
  UNION {{[pre |-> w.pre, tok |-> t, post |-> w.post] : t \in LongTokens(n), w \in Wrappers}
         : n \in LongLens}

\* strings, keys, arrays and objects longer than the capture buffer
LongOthers(n) ==
  { <<CH_QUOTE>> \o Rep(CH_a, n) \o <<CH_QUOTE>>,
    <<CH_QUOTE>> \o Flatten(Rep(<<CH_BACKSLASH, CH_u, CH_0, CH_0, CH_7, CH_1>>, n)) \o <<CH_QUOTE>>,
    <<CH_QUOTE>> \o Flatten(Rep(<<CH_BACKSLASH, CH_n>>, n)) \o <<CH_QUOTE>>,
    <<CH_LBRACE, CH_QUOTE>> \o Rep(CH_a, n) \o <<CH_QUOTE, CH_COLON, CH_1, CH_RBRACE>>,
    <<CH_LBRACKET>> \o Flatten(Rep(<<CH_1, CH_COMMA>>, n)) \o <<CH_1, CH_RBRACKET>>,
    <<CH_LBRACKET>> \o Flatten(Rep(<<CH_t, CH_r, CH_u, CH_e, CH_COMMA>>, n)) \o <<CH_n, CH_u, CH_l, CH_l, CH_RBRACKET>>,
    Rep(CH_LBRACKET, n) \o Rep(CH_RBRACKET, n),
    Rep(CH_SPACE, n) \o <<CH_LBRACKET>> \o Rep(CH_LF, n) \o <<CH_RBRACKET>> \o Rep(CH_TAB, n) }

LongTexts ==
  {d.pre \o d.tok \o d.post : d \in LongNumbers}
  \cup UNION {LongOthers(n) : n \in LongLens}

\* the opening of an array or object, followed by up to MaxTokens tokens
MaxTokens == 2
Tokens ==
  { <<CH_LBRACKET>>, <<CH_RBRACKET>>, <<CH_LBRACE>>, <<CH_RBRACE>>, <<CH_COMMA>>,
    <<CH_COLON>>, <<CH_1>>, <<CH_QUOTE, CH_a, CH_QUOTE>>, <<CH_SPACE>>, <<CH_t, CH_r, CH_u, CH_e>> }

Openings ==
  { <<CH_LBRACKET>>,
    <<CH_LBRACKET, CH_1>>,
    <<CH_LBRACKET, CH_1, CH_COMMA>>,
    <<CH_LBRACKET, CH_COMMA, CH_1>>,
    <<CH_LBRACE>>,
    <<CH_LBRACE, CH_QUOTE, CH_a, CH_QUOTE>>,
    <<CH_LBRACE, CH_QUOTE, CH_a, CH_QUOTE, CH_COLON>>,
    <<CH_LBRACE, CH_QUOTE, CH_a, CH_QUOTE, CH_COLON, CH_1>>,
    <<CH_LBRACE, CH_QUOTE, CH_a, CH_QUOTE, CH_COLON, CH_1, CH_COMMA>>,
    <<CH_LBRACE, CH_1>>,
    <<CH_LBRACE, CH_LBRACKET, CH_RBRACKET>> }

ContainerTexts ==
  {o \o Flatten(ts) : o \in Openings, ts \in SeqsUpTo(Tokens, MaxTokens)}

\* documents with a newline, a CR LF pair or a stray character put in at
\* every position, and cut at every position
DocMultiline == <<CH_LBRACE, CH_LF, CH_QUOTE, CH_a, CH_QUOTE, CH_LF, CH_COLON, CH_LF, CH_LBRACKET, CH_LF, CH_1, CH_LF, CH_COMMA, CH_LF, CH_t, CH_r, CH_u, CH_e, CH_LF, CH_COMMA, CH_LF, CH_QUOTE, CH_b, CH_QUOTE, CH_LF, CH_RBRACKET, CH_LF, CH_RBRACE, CH_LF>>
DocOneLine == <<CH_LBRACE, CH_QUOTE, CH_a, CH_QUOTE, CH_COLON, CH_LBRACKET, CH_1, CH_COMMA, CH_t, CH_r, CH_u, CH_e, CH_COMMA, CH_QUOTE, CH_BACKSLASH, CH_u, CH_UD, CH_8, CH_3, CH_UD, CH_BACKSLASH, CH_u, CH_UD, CH_UE, CH_0, CH_0, CH_BACKSLASH, CH_n, CH_QUOTE, CH_COMMA, CH_MINUS, CH_1, CH_DOT, CH_5, CH_e, CH_PLUS, CH_3, CH_COMMA, CH_n, CH_u, CH_l, CH_l, CH_RBRACKET, CH_RBRACE>>
Insertions == {<<CH_LF>>, <<CH_LF, CH_LF>>, <<CH_CR, CH_LF>>, <<CH_x>>}

LineTexts ==
  UNION {{SubSeq(d, 1, k) \o t \o SubSeq(d, k + 1, Len(d)) : k \in 0..Len(d), t \in Insertions}
         \cup {SubSeq(d, 1, k) \o t : k \in 0..Len(d), t \in Insertions}
         : d \in {DocMultiline, DocOneLine}}

\* no earlier run
NoPrior == [input |-> <<>>, result |-> Running]

\* whitespace appended to the file between two runs of jsontest
Paddings == {<<CH_SPACE>>, <<CH_LF>>, <<CH_TAB, CH_CR>>}

\* files up to this length are run a second time with padding
MaxPadded == 3

\* jsontest main, run once more on the same file with whitespace appended
ParseAgain ==
  /\ pc = "printed" \/ (pc = "done" /\ result.status = "error")
  /\ prior = NoPrior
  /\ Len(input) <= MaxPadded \/ input \in Corpus
  /\ \E w \in Paddings : input' = input \o w
  /\ prior' = [input |-> input, result |-> result]
  /\ origin' = Origin("padded", Null, <<>>)
  /\ reader' = ReaderInit
  /\ pc' = "parse"
  /\ stack' = <<>>
  /\ c' = 0
  /\ value' = <<>>
  /\ high' = 0
  /\ low' = 0
  /\ ret' = Null
  /\ result' = Running
  /\ out' = <<>>

Init ==
  /\ \/ /\ input \in TextInputs
        /\ origin = Origin("text", Null, <<>>)
     \/ \E v \in Values :
          /\ input = ValuePrint(v)
          /\ origin = Origin("value", v, <<>>)
     \/ \E es \in EntryLists :
          /\ input = EntriesText(es)
          /\ origin = Origin("entries", Null, es)
     \/ /\ input \in CanonTexts
        /\ origin = Origin("canon", Null, <<>>)
     \/ /\ input \in TruncatedTexts
        /\ origin = Origin("truncated", Null, <<>>)
     \/ /\ input \in LongTexts
        /\ origin = Origin("long", Null, <<>>)
     \/ /\ input \in ContainerTexts
        /\ origin = Origin("container", Null, <<>>)
     \/ /\ input \in LineTexts
        /\ origin = Origin("lines", Null, <<>>)
  /\ reader = ReaderInit
  /\ pc = "parse"
  /\ stack = <<>>
  /\ c = 0
  /\ value = <<>>
  /\ high = 0
  /\ low = 0
  /\ ret = Null
  /\ result = Running
  /\ out = <<>>
  /\ prior = NoPrior

Next ==
  \/ ParseValue
  \/ ObjectOpen
  \/ ObjectKey
  \/ ObjectValue
  \/ ArrayOpen
  \/ ArrayElement
  \/ StringOpen
  \/ StringChar
  \/ UnicodeHigh
  \/ UnicodeLow
  \/ UnicodeAppend
  \/ NumberMinus
  \/ NumberFirst
  \/ NumberInt
  \/ NumberDot
  \/ NumberFrac
  \/ NumberE
  \/ NumberExp
  \/ NumberEnd
  \/ Literal
  \/ TopLevel
  \/ WriteValue
  \/ ParseAgain

Spec == Init /\ [][Next]_vars

\* the call is over and its outcome has been written
Terminal == pc = "printed" \/ (pc = "done" /\ result.status = "error")

\* the positions of an activation, and of main around the call
Positions ==
  {"parse", "object", "array", "string", "string_loop", "u_high", "u_low",
   "u_append", "minus", "number", "num_int", "num_dot", "num_frac", "num_e",
   "num_exp", "num_end", "literal", "return", "done", "printed"}

\* the thread goes on to its next position.  Every action but ParseAgain
\* is guarded by the position alone (and, at "return", by the frame on top
\* of the stack) and has an outcome in every state that meets its guard, so
\* that some action is enabled in every state that is not Terminal.
Proceed == ~Terminal /\ pc' \in Positions

\* the runs followed to their end: on the texts, the documents cut short,
\* the long tokens, the containers and the documents of several lines
LiveKinds == {"text", "truncated", "long", "container", "lines"}

LiveInit == Init /\ origin.kind \in LiveKinds

\* a started run is carried on: a single thread that is never suspended
LiveSpec == LiveInit /\ [][Next]_vars /\ WF_pc(Proceed)

----------------------------------------------------------------------------
(* Properties                                                               *)

IsWhitespace(ch) == ch \in {CH_SPACE, CH_TAB, CH_CR, CH_LF}

\* the bytes of input the stream has not delivered yet
Rest == SubSeq(input, reader.pos + 1, Len(input))

AllWhitespace(s) == \A i \in 1..Len(s) : IsWhitespace(s[i])

Failed(what) == result.status = "error" /\ result.what = what

\* C1: parse(stream) returns a Value only from the point where the single
\* top-level value has been parsed and only if all that follows it in the
\* input is whitespace; if anything else follows the top-level value, the
\* call ends with ParseError "Invalid structure or literal".
C1_TrailingContent ==
  [][/\ (result.status # "value" /\ result'.status = "value")
          => (pc = "return" /\ stack = <<>> /\ AllWhitespace(Rest)
              /\ result'.value = ret)
     /\ (pc = "return" /\ stack = <<>> /\ ~AllWhitespace(Rest))
          => (result'.status = "error"
              /\ result'.what = "Invalid structure or literal")]_vars

\* '123 abc': the number is parsed, then the call fails at 'a'
C1_Witness ==
  /\ input = DocTrailing
  /\ pc = "done"
  /\ Failed("Invalid structure or literal")
  /\ ret = Number(Dbl(FALSE, <<1, 2, 3>>, 2))
  /\ reader.pos = 4

Finished == pc \in {"done", "printed"}

\* C2: round trip.  When the input is the text operator<< writes for a
\* value built from Null, Bool, String (ASCII, no control characters),
\* Array, Object and finite Number with an exact text, parse succeeds and
\* returns a value structurally equal to it.
C2_RoundTrip ==
  (Finished /\ origin.kind = "value")
    => (result.status = "value" /\ result.value = origin.value)

\* the first entry of es written with key k
FirstWith(es, k) ==
  es[CHOOSE i \in 1..Len(es) :
       es[i].key = k /\ \A j \in 1..(i - 1) : es[j].key # k]

KeysOf(es) == {es[i].key : i \in 1..Len(es)}

\* C3: first-wins.  For an object written entry by entry, the parsed Object
\* has exactly the distinct keys written and maps each to the value of its
\* first occurrence; the values of later duplicates are still parsed: all
\* the input is consumed, and a duplicate's value that is not JSON makes
\* the whole parse fail.
C3_FirstWins ==
  (Finished /\ origin.kind = "entries") =>
    LET es == origin.entries IN
    IF \A i \in 1..Len(es) : es[i].val.ok
    THEN /\ result.status = "value"
         /\ is_object(result.value)
         /\ DOMAIN as_object(result.value) = KeysOf(es)
         /\ \A k \in KeysOf(es) :
              as_object(result.value)[k] = FirstWith(es, k).val.value
         /\ reader.pos = Len(input)
    ELSE Failed("Invalid literal")

\* a key written twice with different values, parsed to the end
C3_Witness ==
  /\ Finished
  /\ origin.kind = "entries"
  /\ Len(origin.entries) = 2
  /\ origin.entries[1].key = origin.entries[2].key
  /\ origin.entries[1].val.text = <<CH_1>>
  /\ origin.entries[2].val.text = <<CH_2>>
  /\ result.status = "value"
  /\ as_object(result.value)[origin.entries[1].key] = Number(One)
  /\ reader.pos = Len(input)

\* a later duplicate whose value is not JSON aborts the parse
C3_WitnessError ==
  /\ Finished
  /\ origin.kind = "entries"
  /\ Len(origin.entries) = 2
  /\ origin.entries[1].key = origin.entries[2].key
  /\ origin.entries[1].val.ok
  /\ ~origin.entries[2].val.ok
  /\ Failed("Invalid literal")

\* The JSON number grammar -?(0|[1-9][0-9]*)(\.[0-9]+)?([eE][-+]?[0-9]+)?,
\* matched part by part; NoMatch stands for a part that does not match.
NoMatch == <<EOF>>

RECURSIVE NumDigits(_)
NumDigits(s) ==
  IF s = <<>> \/ s[1] \notin CH_0..CH_9 THEN 0 ELSE 1 + NumDigits(Tail(s))

AfterSign(s) == IF s # <<>> /\ s[1] = CH_MINUS THEN Tail(s) ELSE s

AfterInt(s) ==
  IF s = <<>> \/ s = NoMatch THEN NoMatch
  ELSE IF s[1] = CH_0 THEN Tail(s)
  ELSE IF s[1] \in CH_1..CH_9 THEN SubSeq(s, NumDigits(s) + 1, Len(s))
  ELSE NoMatch

AfterFrac(s) ==
  IF s = NoMatch THEN NoMatch
  ELSE IF s # <<>> /\ s[1] = CH_DOT
  THEN IF NumDigits(Tail(s)) >= 1
       THEN SubSeq(s, NumDigits(Tail(s)) + 2, Len(s))
       ELSE NoMatch
  ELSE s

AfterExp(s) ==
  IF s = NoMatch THEN NoMatch
  ELSE IF s # <<>> /\ s[1] \in {CH_e, CH_UE}
  THEN LET t == IF Len(s) >= 2 /\ s[2] \in {CH_MINUS, CH_PLUS}
                THEN SubSeq(s, 3, Len(s)) ELSE Tail(s)
       IN IF NumDigits(t) >= 1 THEN SubSeq(t, NumDigits(t) + 1, Len(t))
          ELSE NoMatch
  ELSE s

IsJsonNumber(tok) == AfterExp(AfterFrac(AfterInt(AfterSign(tok)))) = <<>>

NumberPcs ==
  {"minus", "number", "num_int", "num_dot", "num_frac", "num_e", "num_exp", "num_end"}

\* what C4 asks of one step taken inside the number case
NumberStepOk ==
  (pc \in NumberPcs) =>
    ((pc' = "return" => IsJsonNumber(CStr(reader'.buffer)))
     /\ ((result'.status = "error" /\ ~reader'.failbit
          /\ result'.what # "Overlong value")
         => result'.what = "Invalid number format"))

\* C4: number lexing follows the JSON number grammar.  Whenever the number
\* case returns a Number, the captured token matches the grammar (a '.' is
\* followed by a digit, an exponent marker by a digit); and when the number
\* case fails on a character it has read, it fails with "Invalid number
\* format".
C4_NumberGrammar ==
  [][NumberStepOk]_vars

\* a before b in lexicographic order of the bytes
LexLess(a, b) ==
  \E i \in 1..Len(b) :
    /\ i <= Len(a) + 1
    /\ \A j \in 1..(i - 1) : a[j] = b[j]
    /\ (i = Len(a) + 1 \/ a[i] < b[i])

DistinctKeys(es) == \A i, j \in 1..Len(es) : i # j => es[i].key # es[j].key

\* the entries of es, whose keys are distinct, in ascending key order
ByKey(es) ==
  [n \in 1..Len(es) |->
     es[CHOOSE i \in 1..Len(es) :
          Cardinality({j \in 1..Len(es) : LexLess(es[j].key, es[i].key)}) = n - 1]]

\* the compact text of entries in the order given
CompactObject(es) ==
  <<CH_LBRACE>>
  \o Join([i \in 1..Len(es) |->
             <<CH_QUOTE>> \o es[i].key \o <<CH_QUOTE, CH_COLON, CH_SPACE>>
             \o es[i].val.text],
          <<CH_COMMA, CH_SPACE>>)
  \o <<CH_RBRACE>>

\* C5: an Object is written with its entries in ascending lexicographic key
\* order whatever the order of the keys in the input: the text written for
\* an input with distinct keys is the text of its entries sorted by key, so
\* inputs with the same entries in different orders are written alike.
C5_KeyOrder ==
  (pc = "printed" /\ origin.kind = "entries" /\ DistinctKeys(origin.entries))
    => out = CompactObject(ByKey(origin.entries))

\* the keys b, ab, a written in descending order come out ascending
C5_Witness ==
  /\ pc = "printed"
  /\ origin.kind = "entries"
  /\ Len(origin.entries) = 3
  /\ origin.entries[1].key = <<CH_b>>
  /\ origin.entries[2].key = <<CH_a, CH_b>>
  /\ origin.entries[3].key = <<CH_a>>
  /\ out = CompactObject(<<origin.entries[3], origin.entries[2], origin.entries[1]>>)

\* C6: the compact rendering is a fixed point of parse-then-serialize.  A
\* document whose top-level value is an array or object, written in the
\* serializer's own form, parses, and the text written for the parsed value
\* is the document, character for character.
C6_FixedPoint ==
  (Finished /\ origin.kind = "canon") =>
    (result.status = "value" /\ (pc = "printed" => out = input))

\* {"a": 1, "b": [true, false, null]} is written back unchanged
C6_Witness ==
  /\ pc = "printed"
  /\ origin.kind = "canon"
  /\ input = DocExample
  /\ out = DocExample

\* the six bytes that are written as a two-character escape
EscapeTable ==
  (CH_BS :> <<CH_BACKSLASH, CH_b>>) @@ (CH_FF :> <<CH_BACKSLASH, CH_f>>)
  @@ (CH_LF :> <<CH_BACKSLASH, CH_n>>) @@ (CH_TAB :> <<CH_BACKSLASH, CH_t>>)
  @@ (CH_CR :> <<CH_BACKSLASH, CH_r>>) @@ (CH_QUOTE :> <<CH_BACKSLASH, CH_QUOTE>>)

Quoted(s) ==
  <<CH_QUOTE>>
  \o Flatten([i \in 1..Len(s) |->
                IF s[i] \in DOMAIN EscapeTable THEN EscapeTable[s[i]] ELSE <<s[i]>>])
  \o <<CH_QUOTE>>

C7_WitnessControl ==
  /\ pc = "printed"
  /\ is_string(result.value)
  /\ as_string(result.value) = <<1, CH_TAB>>
  /\ out = <<CH_QUOTE, 1, CH_BACKSLASH, CH_t, CH_QUOTE>>

\* Reading \u escapes off the text of the input
HexDigit(ch) ==
  IF ch \in CH_0..CH_9 THEN ch - CH_0
  ELSE IF ch \in CH_UA..CH_UF THEN ch - CH_UA + 10
  ELSE ch - CH_a + 10

IsHex(ch) == ch \in (CH_0..CH_9) \cup (CH_UA..CH_UF) \cup (CH_a..CH_f)

\* the characters \u stand at k, k + 1 of s
MarkerAt(s, k) == k + 1 <= Len(s) /\ s[k] = CH_BACKSLASH /\ s[k + 1] = CH_u

\* four hexadecimal digits stand at k .. k + 3 of s
HexAt(s, k) == k + 3 <= Len(s) /\ \A i \in k..(k + 3) : IsHex(s[i])

UnitAt(s, k) ==
  4096 * HexDigit(s[k]) + 256 * HexDigit(s[k + 1])
  + 16 * HexDigit(s[k + 2]) + HexDigit(s[k + 3])

HighSurrogates == 55296..56319
LowSurrogates == 56320..57343

\* the input is a string that begins with a \uXXXX escape
BeginsWithUnit == Len(input) >= 1 /\ input[1] = CH_QUOTE
                  /\ MarkerAt(input, 2) /\ HexAt(input, 4)

\* C8, as claimed: a high surrogate that is not followed at once by \u and
\* four hex digits fails with "Expected unicode surrogate pair"; a second
\* unit outside 0xDC00-0xDFFF fails with "Invalid UTF16 low surrogate"; a
\* first unit in 0xDC00-0xDFFF fails with "Invalid UTF16 high surrogate".
C8_SurrogatePairing_Claimed ==
  (Finished /\ BeginsWithUnit) =>
    LET h == UnitAt(input, 4) IN
    /\ (h \in HighSurrogates /\ ~(MarkerAt(input, 8) /\ HexAt(input, 10)))
         => Failed("Expected unicode surrogate pair")
    /\ (h \in HighSurrogates /\ MarkerAt(input, 8) /\ HexAt(input, 10)
        /\ UnitAt(input, 10) \notin LowSurrogates)
         => Failed("Invalid UTF16 low surrogate")
    /\ (h \in LowSurrogates) => Failed("Invalid UTF16 high surrogate")

\* C8, amended: a high surrogate that is not followed at once by the two
\* characters \u fails with "Expected unicode surrogate pair"; when \u
\* follows but not four hex digits, the parse fails with "Invalid hex escape
\* code", or with "Unexpected end of file" if the input ends first; a second
\* unit outside 0xDC00-0xDFFF fails with "Invalid UTF16 low surrogate"; a
\* first unit in 0xDC00-0xDFFF fails with "Invalid UTF16 high surrogate".
\* No String is returned in any of these cases.
C8_SurrogatePairing ==
  (Finished /\ BeginsWithUnit) =>
    LET h == UnitAt(input, 4) IN
    /\ (h \in HighSurrogates /\ ~MarkerAt(input, 8))
         => Failed("Expected unicode surrogate pair")
    /\ (h \in HighSurrogates /\ MarkerAt(input, 8) /\ ~HexAt(input, 10))
         => IF \E i \in 10..13 : i <= Len(input) /\ ~IsHex(input[i])
            THEN Failed("Invalid hex escape code")
            ELSE Failed("Unexpected end of file")
    /\ (h \in HighSurrogates /\ MarkerAt(input, 8) /\ HexAt(input, 10)
        /\ UnitAt(input, 10) \notin LowSurrogates)
         => Failed("Invalid UTF16 low surrogate")
    /\ (h \in LowSurrogates) => Failed("Invalid UTF16 high surrogate")

\* "\uD83Dx": the high surrogate is followed by x
C8_Witness ==
  /\ Finished
  /\ input = DocLoneHigh
  /\ UnitAt(input, 4) \in HighSurrogates
  /\ Failed("Expected unicode surrogate pair")

\* a high surrogate followed by \u00xx
C8_WitnessHex ==
  /\ Finished
  /\ BeginsWithUnit
  /\ UnitAt(input, 4) \in HighSurrogates
  /\ MarkerAt(input, 8)
  /\ Failed("Invalid hex escape code")

\* a high surrogate followed by a unit that is not a low surrogate
C8_WitnessLow ==
  /\ Finished
  /\ BeginsWithUnit
  /\ UnitAt(input, 4) \in HighSurrogates
  /\ Failed("Invalid UTF16 low surrogate")

\* a low surrogate that comes first
C8_WitnessHigh ==
  /\ Finished
  /\ BeginsWithUnit
  /\ UnitAt(input, 4) \in LowSurrogates
  /\ Failed("Invalid UTF16 high surrogate")

\* UTF-8, stated by decoding: bytes is the encoding of cp when it has the
\* length the range of cp calls for, a lead byte of that length,
\* continuation bytes 10xxxxxx, and payload bits that make up cp.
Utf8Length(cp) ==
  IF cp <= 127 THEN 1 ELSE IF cp <= 2047 THEN 2 ELSE IF cp <= 65535 THEN 3 ELSE 4

LeadBase(n) == IF n = 1 THEN 0 ELSE IF n = 2 THEN 192 ELSE IF n = 3 THEN 224 ELSE 240

LeadBits(n) == IF n = 1 THEN 128 ELSE IF n = 2 THEN 32 ELSE IF n = 3 THEN 16 ELSE 8

RECURSIVE Payload(_, _)
Payload(bytes, acc) ==
  IF bytes = <<>> THEN acc
  ELSE Payload(Tail(bytes), acc * 64 + (Head(bytes) - 128))

IsUtf8Of(bytes, cp) ==
  LET n == Utf8Length(cp) IN
  /\ Len(bytes) = n
  /\ bytes[1] \in LeadBase(n)..(LeadBase(n) + LeadBits(n) - 1)
  /\ \A i \in 2..n : bytes[i] \in 128..191
  /\ Payload(Tail(bytes), bytes[1] - LeadBase(n)) = cp

\* the input is exactly one string holding one \uXXXX escape
OneUnit == BeginsWithUnit /\ Len(input) = 8 /\ input[8] = CH_QUOTE

\* the input is exactly one string holding two \uXXXX escapes
TwoUnits ==
  /\ BeginsWithUnit /\ Len(input) = 14 /\ input[14] = CH_QUOTE
  /\ MarkerAt(input, 8) /\ HexAt(input, 10)

Returned(str) == result.status = "value" /\ is_string(result.value)
                 /\ as_string(result.value) = str

\* C9: utf16_to_utf8 is a correct UTF-8 encoder.  A unit h outside
\* 0xD800-0xDFFF is turned into the UTF-8 encoding of code point h (1, 2 or 3
\* bytes); a high surrogate h followed by a low surrogate l into the 4-byte
\* encoding of ((h - 0xD800) << 10) + (l - 0xDC00) + 0x10000.
C9_Utf8 ==
  /\ (Finished /\ OneUnit
      /\ UnitAt(input, 4) \notin (HighSurrogates \cup LowSurrogates))
       => (result.status = "value" /\ is_string(result.value)
           /\ IsUtf8Of(as_string(result.value), UnitAt(input, 4)))
  /\ (Finished /\ TwoUnits /\ UnitAt(input, 4) \in HighSurrogates
      /\ UnitAt(input, 10) \in LowSurrogates)
       => (result.status = "value" /\ is_string(result.value)
           /\ Len(as_string(result.value)) = 4
           /\ IsUtf8Of(as_string(result.value),
                       (UnitAt(input, 4) - 55296) * 1024
                       + (UnitAt(input, 10) - 56320) + 65536))

\* "😀" gives the bytes F0 9F 98 80
C9_Witness ==
  /\ Finished
  /\ input = DocSurrogatePair
  /\ Returned(<<240, 159, 152, 128>>)

\* a three-byte encoding: "￿" gives EF BF BF
C9_WitnessThree ==
  /\ Finished
  /\ OneUnit
  /\ UnitAt(input, 4) = 65535
  /\ Returned(<<239, 191, 191>>)

\* the proper, non-empty prefixes of the keywords true, false and null
Keywords ==
  {<<CH_t, CH_r, CH_u, CH_e>>, <<CH_f, CH_a, CH_l, CH_s, CH_e>>,
   <<CH_n, CH_u, CH_l, CH_l>>}

KeywordPrefixes ==
  UNION {{SubSeq(k, 1, n) : n \in 1..(Len(k) - 1)} : k \in Keywords}

EndsWith(s, p) ==
  Len(p) <= Len(s) /\ SubSeq(s, Len(s) - Len(p) + 1, Len(s)) = p

\* the input ends outside a string: the quotes before its end are paired
\* (the truncated documents hold no escaped quote)
OutsideString == Cardinality({i \in 1..Len(input) : input[i] = CH_QUOTE}) % 2 = 0

\* the input ends inside a keyword true, false or null
EndsInKeyword ==
  /\ OutsideString
  /\ \E p \in KeywordPrefixes : EndsWith(input, p)

\* the input ends where the \u of a low surrogate is required: right after
\* a high surrogate escape, or after the backslash that follows it
EndsAfterHigh ==
  \E n \in {Len(input), Len(input) - 1} :
    /\ n >= 6
    /\ n = Len(input) \/ input[Len(input)] = CH_BACKSLASH
    /\ MarkerAt(input, n - 5)
    /\ HexAt(input, n - 3)
    /\ UnitAt(input, n - 3) \in HighSurrogates

\* C10: truncated input never yields a Value.  An empty or whitespace-only
\* input, and a document cut short inside an array, object, string, escape
\* or number, end with ParseError "Unexpected end of file"; a document cut
\* inside a keyword ends with "Invalid literal", and one cut where the \u of
\* a low surrogate is required with "Expected unicode surrogate pair".  On
\* any input, a call that fails once the stream has run out fails with one
\* of these three messages.
C10_Truncated ==
  /\ (Finished /\ AllWhitespace(input)) => Failed("Unexpected end of file")
  /\ (Finished /\ origin.kind = "truncated") =>
       IF EndsInKeyword THEN Failed("Invalid literal")
       ELSE IF EndsAfterHigh THEN Failed("Expected unicode surrogate pair")
       ELSE Failed("Unexpected end of file")
  /\ (Finished /\ result.status = "error" /\ reader.failbit) =>
       result.what \in {"Unexpected end of file", "Invalid literal",
                        "Expected unicode surrogate pair"}

\* '[1,2,' ends with "Unexpected end of file"
C10_Witness ==
  /\ Finished
  /\ input = DocTruncated
  /\ Failed("Unexpected end of file")

\* a document cut inside a keyword
C10_WitnessLiteral ==
  /\ Finished
  /\ origin.kind = "truncated"
  /\ EndsInKeyword
  /\ Failed("Invalid literal")

\* a document cut after a high surrogate
C10_WitnessSurrogate ==
  /\ Finished
  /\ origin.kind = "truncated"
  /\ EndsAfterHigh
  /\ Failed("Expected unicode surrogate pair")

\* a whitespace-only input
C10_WitnessBlank ==
  /\ Finished
  /\ Len(input) >= 1
  /\ AllWhitespace(input)
  /\ Failed("Unexpected end of file")

\* a step that starts a new run of the program
NewRun == pc' = "parse" /\ reader' = ReaderInit /\ prior' # prior

C11_Step ==
  /\ (result.status = "error" /\ ~NewRun) =>
       (reader' = reader /\ result' = result /\ pc' = pc)
  /\ (result.status = "running" /\ result'.status = "error") =>
       /\ pc' = "done"
       /\ stack' = <<>>
       /\ result'.value = Null
       /\ result'.line = reader'.line
  /\ (result.status = "running" /\ result'.status = "value") =>
       /\ pc = "return" /\ stack = <<>>
       /\ result'.value = ret
       /\ pc' = "done"
  /\ (result.status = "value" /\ ~NewRun) => result' = result /\ reader' = reader
  /\ Finished' <=> result'.status \in {"value", "error"}

\* C11: a parse call has exactly one outcome.  Once a step raises a
\* ParseError, the call is over with that error, its message and its line:
\* nothing more is read from the stream, no activation goes on, and the
\* outcome never turns into a Value; a Value is the outcome only when the
\* outermost parse(Reader &) returned it.
C11_SingleOutcome == [][C11_Step]_vars

\* an error raised inside a nested array, with input left unread
C11_Witness ==
  /\ pc = "done"
  /\ result.status = "error"
  /\ Len(input) >= 2
  /\ input[1] = CH_LBRACKET
  /\ reader.pos >= 2
  /\ reader.pos < Len(input)

\* C12: capture bound on number tokens.  A valid number token of n
\* characters followed by a terminating character is lexed into a Number
\* when n <= 63, and the parse fails with "Overlong value" when n >= 64.
C12_CaptureBound ==
  (Finished /\ origin.kind = "long") =>
    \A d \in LongNumbers :
      (input = d.pre \o d.tok \o d.post) =>
        /\ IsJsonNumber(d.tok)
        /\ (Len(d.tok) <= BufSize - 1) => result.status = "value"
        /\ (Len(d.tok) >= BufSize) => Failed("Overlong value")

\* a token of 63 characters is lexed
C12_Witness ==
  /\ Finished
  /\ input = <<CH_LBRACKET>> \o Rep(CH_1, BufSize - 1) \o <<CH_RBRACKET>>
  /\ result.status = "value"
  /\ is_array(result.value)

\* a token of 64 characters is not
C12_WitnessOverlong ==
  /\ Finished
  /\ input = <<CH_LBRACKET>> \o Rep(CH_1, BufSize) \o <<CH_RBRACKET>>
  /\ Failed("Overlong value")

\* the first character of input after position k that is not whitespace,
\* or EOF
RECURSIVE NextChar(_)
NextChar(k) ==
  IF k >= Len(input) THEN EOF
  ELSE IF IsWhitespace(input[k + 1]) THEN NextChar(k + 1)
  ELSE input[k + 1]

DocTrailingComma == <<CH_LBRACKET, CH_1, CH_COMMA, CH_RBRACKET>>
DocTrailingCommaObject ==
  <<CH_LBRACE, CH_QUOTE, CH_a, CH_QUOTE, CH_COLON, CH_1, CH_COMMA, CH_RBRACE>>
DocLeadingComma == <<CH_LBRACKET, CH_COMMA, CH_1, CH_RBRACKET>>

Closers == {CH_RBRACKET, CH_RBRACE, CH_COMMA, CH_COLON}

C13_Step ==
  LET n == NextChar(reader.pos)
      failed(what) == result'.status = "error" /\ result'.what = what
  IN
  \* an element or entry is mandatory where one is parsed: at the start of
  \* a non-empty container, after ',' and after ':'
  /\ (pc = "parse" /\ stack # <<>> /\ n \in Closers)
       => failed("Invalid structure or literal")
  \* after an element of an array
  /\ (pc = "return" /\ stack # <<>> /\ Top.kind = "Array"
      /\ n \notin {CH_COMMA, CH_RBRACKET, EOF})
       => failed("Expected ',' or ']' after value")
  \* after the value of an entry
  /\ (pc = "return" /\ stack # <<>> /\ Top.kind = "Object" /\ Top.at = "value"
      /\ n \notin {CH_COMMA, CH_RBRACE, EOF})
       => failed("Expected ',' or '}' after value")
  \* after a key
  /\ (pc = "return" /\ stack # <<>> /\ Top.kind = "Object" /\ Top.at = "key"
      /\ ~is_string(ret))
       => failed("Expected string key")
  /\ (pc = "return" /\ stack # <<>> /\ Top.kind = "Object" /\ Top.at = "key"
      /\ is_string(ret) /\ n \notin {CH_COLON, EOF})
       => failed("Expected ':' after key")
  \* the three documents named by the claim
  /\ (Finished' /\ input \in {DocTrailingComma, DocTrailingCommaObject, DocLeadingComma})
       => result'.status = "error"

\* C13: container grammar is strict.  After ',' another element or entry
\* is mandatory ('[1,]', '{"a":1,}' and '[,1]' fail); a value followed by
\* anything but ',' or the matching closer fails with "Expected ',' or ']'
\* after value" / "Expected ',' or '}' after value"; a key that is not a
\* String fails with "Expected string key", and a key not followed by ':'
\* with "Expected ':' after key".
C13_StrictContainers == [][C13_Step]_vars

\* '{"a":1,}' fails where the entry after ',' is parsed
C13_Witness ==
  /\ Finished
  /\ input = DocTrailingCommaObject
  /\ Failed("Invalid structure or literal")
  /\ reader.pos = Len(input)

C13_WitnessKey ==
  /\ Finished
  /\ origin.kind = "container"
  /\ Failed("Expected string key")

C13_WitnessColon ==
  /\ Finished
  /\ origin.kind = "container"
  /\ Failed("Expected ':' after key")

C13_WitnessArray ==
  /\ Finished
  /\ origin.kind = "container"
  /\ Failed("Expected ',' or ']' after value")

C13_WitnessObject ==
  /\ Finished
  /\ origin.kind = "container"
  /\ Failed("Expected ',' or '}' after value")

\* this run parsed the file of an earlier run with whitespace appended
Padded == prior # NoPrior

\* C14: trailing whitespace is irrelevant to the outcome.  parse(x) and
\* parse(x followed by whitespace) both succeed or both fail, and when they
\* succeed the Values are equal; also when x ends with a top-level number.
C14_TrailingWhitespace ==
  (Finished /\ Padded) =>
    /\ (result.status = "value") <=> (prior.result.status = "value")
    /\ (result.status = "value") => (result.value = prior.result.value)

\* the same, for every x that does not end with a top-level number token
EndsWithNumber(x, v) ==
  /\ x # <<>>
  /\ is_number(v)

C14_ExceptNumbers ==
  (Finished /\ Padded) =>
    \/ /\ (result.status = "value") <=> (prior.result.status = "value")
       /\ (result.status = "value") => (result.value = prior.result.value)
    \/ /\ result.status = "value"
       /\ EndsWithNumber(prior.input, result.value)
       /\ prior.result.status = "error"
       /\ prior.result.what = "Unexpected end of file"

\* '0' fails and '0 ' succeeds
C14_WitnessNumber ==
  /\ Finished /\ Padded
  /\ prior.input = <<CH_0>>
  /\ prior.result.status = "error"
  /\ result.status = "value"

\* '[1]' and '[1]' followed by whitespace give the same Value
C14_WitnessSame ==
  /\ Finished /\ Padded
  /\ prior.input = <<CH_LBRACKET, CH_1, CH_RBRACKET>>
  /\ prior.result.status = "value"
  /\ result.status = "value"
  /\ result.value = prior.result.value

\* the number of '\n' among the first k bytes of the input
Newlines(k) == Cardinality({i \in 1..k : input[i] = CH_LF})

\* the errors raised on a character that was read outside skip_ws
RaisedOnCharacter ==
  {"Missing string termination before EOL", "Invalid escape code",
   "Invalid literal", "Invalid hex escape code",
   "Expected unicode surrogate pair", "Invalid number format",
   "Overlong value"}

\* the last byte read is a '\n' that skip_ws did not read: the character
\* held in c that ends a number, before it is pushed back; the one the
\* string loop is about to test; or the one an error was raised on
NewlinePending ==
  /\ reader.pos >= 1
  /\ input[reader.pos] = CH_LF
  /\ \/ pc \in NumberPcs \cup {"string_loop"} /\ c = CH_LF
     \/ result.status = "error" /\ result.what \in RaisedOnCharacter

C15_Counted ==
  /\ reader.line = Newlines(reader.pos) - (IF NewlinePending THEN 1 ELSE 0)
  /\ (result.status = "error") =>
       /\ result.line = reader.line
       /\ result.line =
            IF result.what \in RaisedOnCharacter /\ ~reader.failbit
            THEN Newlines(reader.pos - 1)
            ELSE Newlines(reader.pos)
  /\ (result.status = "value") => reader.line = Newlines(Len(input))

C15_Monotone == NewRun \/ reader'.line >= reader.line

\* C15: line counter.  Reader.line starts at 0, never decreases during a
\* call, and is the number of '\n' read so far by skip_ws: every '\n' read,
\* but for one that was read outside skip_ws and is about to be pushed back
\* (the end of a number) or rejected with a ParseError.  The line of a
\* ParseError is the number of '\n' before the offending character or the
\* end of the input, and after a successful parse the counter is the number
\* of '\n' in the input.
C15_LineCounter == [](C15_Counted) /\ [][C15_Monotone]_vars

\* an error on the third line of a document
C15_Witness ==
  /\ Finished
  /\ origin.kind = "lines"
  /\ result.status = "error"
  /\ result.line = 3
  /\ reader.pos < Len(input)

\* a newline inside a string is rejected and not counted
C15_WitnessString ==
  /\ Finished
  /\ Failed("Missing string termination before EOL")
  /\ result.line = Newlines(reader.pos) - 1

\* a newline that ends a number is read, pushed back and counted once
C15_WitnessNumber ==
  /\ pc = "num_end"
  /\ NewlinePending

\* a successful parse of a document of several lines
C15_WitnessValue ==
  /\ Finished
  /\ result.status = "value"
  /\ reader.line >= 10

\* a measure of the progress of a call: the bytes read, and within the
\* same number of bytes read how far the activation has got.  The
\* character that ends a number is read twice, by the number case and, after
\* the pushback, by the caller: a byte weighs 10 and "return" weighs one
\* byte more than the positions of the number case.
Rank ==
  [p \in Positions |->
     CASE p \in {"object", "array", "string", "string_loop", "literal",
                 "minus", "number", "u_high"} -> 0
       [] p \in {"num_int", "u_low"} -> 1
       [] p \in {"num_dot", "u_append"} -> 2
       [] p \in {"num_frac", "num_e", "num_exp"} -> 3
       [] p = "num_end" -> 4
       [] p = "parse" -> 6
       [] p = "return" -> 15
       [] p = "done" -> 16
       [] p = "printed" -> 17]

Measure == 10 * reader.pos + Rank[pc]

C16_Progress ==
  \/ NewRun
  \/ /\ Measure' > Measure
     /\ Measure' <= 10 * (Len(input) + 1) + 7
     \* an iteration of a loop, and a call made from a loop, reads a byte
     /\ (pc' = pc) => reader'.pos > reader.pos
     \* a byte is handed back at most once before the next one is read
     /\ reader'.pos >= reader.pos - 1
     /\ (reader'.pos < reader.pos) => (pc = "num_end" /\ pc' = "return")

\* a call that is not over stands where one of the actions takes it on
C16_Guarded ==
  \/ Terminal
  \/ pc \in Positions \ {"return", "done", "printed"}
  \/ /\ pc = "return"
     /\ \/ stack = <<>>
        \/ Top.kind = "Array"
        \/ Top.kind = "Object" /\ Top.at \in {"key", "value"}
  \/ pc = "done" /\ result.status = "value"

Capturing == reader.capture_offset >= 0

C17_Window ==
  \* closed at every entry to parse(Reader &) and at every return from it
  /\ (pc \in {"parse", "return"}) => ~Capturing
  \* open, in a call that goes on, only inside the number case
  /\ (Capturing /\ result.status # "error") => pc \in NumberPcs
  \* closed in every position outside the number case
  /\ (pc \in Positions \ (NumberPcs \cup {"done", "printed"})) => ~Capturing
  \* left open by a ParseError raised on the first character of a value, in
  \* a number, or on the four hex digits of a \u escape
  /\ (Capturing /\ result.status = "error") =>
       result.what \in {"Unexpected end of file", "Overlong value",
                        "Invalid number format", "Invalid hex escape code"}
  \* strings, keys, arrays and objects longer than the buffer are parsed
  /\ (Finished /\ origin.kind = "long"
      /\ \A d \in LongNumbers : input # d.pre \o d.tok \o d.post)
       => result.status = "value"

C17_Overlong ==
  (result.status = "running" /\ result'.status = "error"
   /\ result'.what = "Overlong value") => pc \in NumberPcs

\* C17: the capture window is open only from the first character of a
\* value to the end of a number token, and while the four hex digits of a
\* \u escape are read; it is closed at every entry to parse(Reader &) and at
\* every return from it.  "Overlong value" is raised only in the number
\* case: strings, keys, arrays and objects of any length are parsed.
C17_CaptureWindow == [](C17_Window) /\ [][C17_Overlong]_vars

\* a string of more than 64 characters with \u escapes is returned
C17_Witness ==
  /\ Finished
  /\ origin.kind = "long"
  /\ result.status = "value"
  /\ is_string(result.value)
  /\ Len(as_string(result.value)) >= BufSize
  /\ Len(input) > 6 * BufSize

\* the window is open inside a number nested in an array
C17_WitnessOpen ==
  /\ pc = "num_int"
  /\ stack # <<>>
  /\ reader.capture_offset >= 2

\* the reader after n more characters were captured by get(), or the
\* reader at the get() that raised
RECURSIVE AfterGets(_, _)
AfterGets(r, n) ==
  IF n = 0 THEN r
  ELSE LET g == get(r) IN
       IF g.err # NoErr THEN g.r ELSE AfterGets(g.r, n - 1)

\* index at which end_capture() stores the terminator when it runs on r
TerminatorIndex(r) == r.capture_offset

C18_Safe ==
  \* capture_offset stays in -1..64
  /\ reader.capture_offset \in -1..BufSize
  \* the number case: unget() takes the offset from 2..64 to 1..63, where
  \* end_capture() stores the terminator
  /\ (pc = "num_end") =>
       /\ reader.capture_offset \in 2..BufSize
       /\ TerminatorIndex(unget(reader)) \in 0..(BufSize - 1)
  \* every other position of the number case has stored 1..64 characters
  /\ (pc \in NumberPcs) => reader.capture_offset \in 1..BufSize
  \* the first character of a value: end_capture() runs at offset 1
  /\ (pc = "parse") =>
       LET g == get(begin_capture(skip_ws(reader))) IN
       (g.err = NoErr) => TerminatorIndex(g.r) = 1
  \* a \u escape: the four hex digits go to 0..3, the terminator to 4
  /\ (pc = "u_high") =>
       \A n \in 0..4 :
         AfterGets(begin_capture(reader), n).capture_offset \in 0..4
  \* the pushbacks of the object and array cases find the window closed
  /\ (pc \in {"object", "array"}) => reader.capture_offset = -1

C18_Stores ==
  \* a step changes the buffer only at indexes below the offset it started
  \* a capture from, and leaves a terminator where end_capture() ran
  /\ \A i \in 0..(BufSize - 1) :
       (reader'.buffer[i] # reader.buffer[i]) =>
         (NewRun \/ pc \in NumberPcs \cup {"parse", "u_high", "u_low"})
  /\ (pc = "num_end" /\ pc' = "return") =>
       /\ reader'.buffer[reader.capture_offset - 1] = 0
       /\ Len(CStr(reader'.buffer)) = reader.capture_offset - 1

\* C18: capture buffer safety.  capture_offset is always in -1..64; get()
\* stores at indexes 0..63 only; end_capture() always runs with the offset
\* in 0..63, so that its terminator lies inside the buffer; and unget()
\* never takes the offset below -1.
C18_BufferSafety == [](C18_Safe) /\ [][C18_Stores]_vars

\* a number of 63 characters: the offset reaches 64 and the terminator
\* goes to index 63
C18_Witness ==
  /\ pc = "num_end"
  /\ reader.capture_offset = BufSize

\* the pushback of the array case with the window closed
C18_WitnessUnget ==
  /\ pc = "parse"
  /\ stack # <<>>
  /\ Top.kind = "Array"
  /\ reader.capture_offset = -1
  /\ reader.pos >= 1

=============================================================================
